---- MODULE Spec2Model ----
(***************************************************************************)
(* FloatChat AI (src/1mainfile.py): the relevance search and context        *)
(* construction engine of EnhancedARGOChatbot, and the Streamlit session    *)
(* loop of main() that drives it.                                          *)
(*                                                                         *)
(* Python strings are modelled as tuples of one-character strings, so that *)
(* the regular expressions and the substring tests of the program are      *)
(* computed character by character.  A text is named by a TLA+ string and  *)
(* Chars gives its characters.                                             *)
(***************************************************************************)
EXTENDS Integers, Sequences, FiniteSets, TLC

(***************************************************************************)
(* Python's None, and the value .get() returns for an absent key.  Every   *)
(* number a profile or a query carries is >= 0.                            *)
(***************************************************************************)
None == -1

(***************************************************************************)
(* The characters of every text the model uses.  A short text is named by  *)
(* itself; the three diagnostic replies of query_groq are named DIAG_*.    *)
(* A character outside ASCII (the warning sign of the diagnostics) and the  *)
(* backquote are written "!": like them, "!" is neither a word character,  *)
(* a digit nor white space, and no pattern of the program names any.       *)
(***************************************************************************)
Chars(t) ==
    CASE t = "15 August 2023" ->
         <<"1","5"," ","A","u","g","u","s","t"," ","2","0","2","3">>
      [] t = "2023-08-15" ->
         <<"2","0","2","3","-","0","8","-","1","5">>
      [] t = "August 15 2023" ->
         <<"A","u","g","u","s","t"," ","1","5"," ","2","0","2","3">>
      [] t = "temperature in Bay of Bengal August 2023" ->
         <<"t","e","m","p","e","r","a","t","u","r","e"," ","i","n"," ","B","a","y"," ","o","f"," ","B","e","n","g","a","l"," ","A","u","g","u","s","t"," ","2","0","2","3">>
      [] t = "salinity 2021" ->
         <<"s","a","l","i","n","i","t","y"," ","2","0","2","1">>
      [] t = "data for 2021" ->
         <<"d","a","t","a"," ","f","o","r"," ","2","0","2","1">>
      [] t = "analysis of august 2021" ->
         <<"a","n","a","l","y","s","i","s"," ","o","f"," ","a","u","g","u","s","t"," ","2","0","2","1">>
      [] t = "hello" ->
         <<"h","e","l","l","o">>
      [] t = "summary 2021" ->
         <<"s","u","m","m","a","r","y"," ","2","0","2","1">>
      [] t = "compare 2020 vs 2022 temperature" ->
         <<"c","o","m","p","a","r","e"," ","2","0","2","0"," ","v","s"," ","2","0","2","2"," ","t","e","m","p","e","r","a","t","u","r","e">>
      [] t = "last 3 months of 2023" ->
         <<"l","a","s","t"," ","3"," ","m","o","n","t","h","s"," ","o","f"," ","2","0","2","3">>
      [] t = "show me the uploaded file" ->
         <<"s","h","o","w"," ","m","e"," ","t","h","e"," ","u","p","l","o","a","d","e","d"," ","f","i","l","e">>
      [] t = "march" ->
         <<"m","a","r","c","h">>
      [] t = "12 Aug 2023 last 2 months" ->
         <<"1","2"," ","A","u","g"," ","2","0","2","3"," ","l","a","s","t"," ","2"," ","m","o","n","t","h","s">>
      [] t = "january" ->
         <<"j","a","n","u","a","r","y">>
      [] t = "jan" ->
         <<"j","a","n">>
      [] t = "february" ->
         <<"f","e","b","r","u","a","r","y">>
      [] t = "feb" ->
         <<"f","e","b">>
      [] t = "mar" ->
         <<"m","a","r">>
      [] t = "april" ->
         <<"a","p","r","i","l">>
      [] t = "apr" ->
         <<"a","p","r">>
      [] t = "may" ->
         <<"m","a","y">>
      [] t = "june" ->
         <<"j","u","n","e">>
      [] t = "jun" ->
         <<"j","u","n">>
      [] t = "july" ->
         <<"j","u","l","y">>
      [] t = "jul" ->
         <<"j","u","l">>
      [] t = "august" ->
         <<"a","u","g","u","s","t">>
      [] t = "aug" ->
         <<"a","u","g">>
      [] t = "september" ->
         <<"s","e","p","t","e","m","b","e","r">>
      [] t = "sep" ->
         <<"s","e","p">>
      [] t = "october" ->
         <<"o","c","t","o","b","e","r">>
      [] t = "oct" ->
         <<"o","c","t">>
      [] t = "november" ->
         <<"n","o","v","e","m","b","e","r">>
      [] t = "nov" ->
         <<"n","o","v">>
      [] t = "december" ->
         <<"d","e","c","e","m","b","e","r">>
      [] t = "dec" ->
         <<"d","e","c">>
      [] t = "summary" ->
         <<"s","u","m","m","a","r","y">>
      [] t = "overview" ->
         <<"o","v","e","r","v","i","e","w">>
      [] t = "tell me about" ->
         <<"t","e","l","l"," ","m","e"," ","a","b","o","u","t">>
      [] t = "show me" ->
         <<"s","h","o","w"," ","m","e">>
      [] t = "uploaded" ->
         <<"u","p","l","o","a","d","e","d">>
      [] t = "this file" ->
         <<"t","h","i","s"," ","f","i","l","e">>
      [] t = "analyze" ->
         <<"a","n","a","l","y","z","e">>
      [] t = "what is" ->
         <<"w","h","a","t"," ","i","s">>
      [] t = "temperature" ->
         <<"t","e","m","p","e","r","a","t","u","r","e">>
      [] t = "temp" ->
         <<"t","e","m","p">>
      [] t = "salinity" ->
         <<"s","a","l","i","n","i","t","y">>
      [] t = "salt" ->
         <<"s","a","l","t">>
      [] t = "psal" ->
         <<"p","s","a","l">>
      [] t = "oxygen" ->
         <<"o","x","y","g","e","n">>
      [] t = "doxy" ->
         <<"d","o","x","y">>
      [] t = "chlorophyll" ->
         <<"c","h","l","o","r","o","p","h","y","l","l">>
      [] t = "chla" ->
         <<"c","h","l","a">>
      [] t = "pressure" ->
         <<"p","r","e","s","s","u","r","e">>
      [] t = "depth" ->
         <<"d","e","p","t","h">>
      [] t = "pres" ->
         <<"p","r","e","s">>
      [] t = "analysis" ->
         <<"a","n","a","l","y","s","i","s">>
      [] t = "tell me" ->
         <<"t","e","l","l"," ","m","e">>
      [] t = "compare" ->
         <<"c","o","m","p","a","r","e">>
      [] t = "difference" ->
         <<"d","i","f","f","e","r","e","n","c","e">>
      [] t = "vs" ->
         <<"v","s">>
      [] t = "versus" ->
         <<"v","e","r","s","u","s">>
      [] t = "20" ->
         <<"2","0">>
      [] t = "Bay_of_Bengal" ->
         <<"B","a","y","_","o","f","_","B","e","n","g","a","l">>
      [] t = "Arabian_Sea" ->
         <<"A","r","a","b","i","a","n","_","S","e","a">>
      [] t = "2023-08-10T06:30:00Z" ->
         <<"2","0","2","3","-","0","8","-","1","0","T","0","6",":","3","0",":","0","0","Z">>
      [] t = "2023-08-15T12:00:00Z" ->
         <<"2","0","2","3","-","0","8","-","1","5","T","1","2",":","0","0",":","0","0","Z">>
      [] t = "2020-08-03T00:00:00Z" ->
         <<"2","0","2","0","-","0","8","-","0","3","T","0","0",":","0","0",":","0","0","Z">>
      [] t = "2022-03-20T00:00:00Z" ->
         <<"2","0","2","2","-","0","3","-","2","0","T","0","0",":","0","0",":","0","0","Z">>
      [] t = "2021-08-20T00:00:00Z" ->
         <<"2","0","2","1","-","0","8","-","2","0","T","0","0",":","0","0",":","0","0","Z">>
      [] t = "2018-01-05T00:00:00Z" ->
         <<"2","0","1","8","-","0","1","-","0","5","T","0","0",":","0","0",":","0","0","Z">>
      [] t = "2022-09-01T00:00:00Z" ->
         <<"2","0","2","2","-","0","9","-","0","1","T","0","0",":","0","0",":","0","0","Z">>
      [] t = "2023-07-20T00:00:00Z" ->
         <<"2","0","2","3","-","0","7","-","2","0","T","0","0",":","0","0",":","0","0","Z">>
      [] t = "unknown" ->
         <<"u","n","k","n","o","w","n">>
      [] t = "Invalid API Key" ->
         <<"I","n","v","a","l","i","d"," ","A","P","I"," ","K","e","y">>
      [] t = "Connection error." ->
         <<"C","o","n","n","e","c","t","i","o","n"," ","e","r","r","o","r",".">>
      [] t = "The mean temperature was 25.5 C." ->
         <<"T","h","e"," ","m","e","a","n"," ","t","e","m","p","e","r","a","t","u","r","e"," ","w","a","s"," ","2","5",".","5"," ","C",".">>
      [] t = "No relevant data found. Try specific regions, years, or parameters." ->
         <<"N","o"," ","r","e","l","e","v","a","n","t"," ","d","a","t","a"," ","f","o","u","n","d","."," ","T","r","y"," ","s","p","e","c","i","f","i","c"," ","r","e","g","i","o","n","s",","," ","y","e","a","r","s",","," ","o","r"," ","p","a","r","a","m","e","t","e","r","s",".">>
      [] t = "authentication" ->
         <<"a","u","t","h","e","n","t","i","c","a","t","i","o","n">>
      [] t = "api key" ->
         <<"a","p","i"," ","k","e","y">>
      [] t = "" ->
         <<>>
      [] t = "DIAG_NO_PROVIDER" ->
         <<"!","!"," ","*","*","A","I"," ","S","e","r","v","i","c","e"," ","U","n","a","v","a","i","l","a","b","l","e","*","*","\n","\n","*","*","C","u","r","r","e","n","t"," ","S","t","a","t","u","s",":","*","*","\n","-"," ","M","i","s","t","r","a","l"," ","A","P","I",":"," ","N","o","t"," ","c","o","n","f","i","g","u","r","e","d"," ","o","r"," ","f","a","i","l","e","d","\n","-"," ","G","r","o","q"," ","A","P","I",":"," ","N","o","t"," ","c","o","n","f","i","g","u","r","e","d","\n","\n","*","*","S","e","t","u","p"," ","I","n","s","t","r","u","c","t","i","o","n","s",":","*","*","\n","\n","1","."," ","*","*","C","r","e","a","t","e"," ","!",".","e","n","v","!"," ","f","i","l","e","*","*"," ","i","n"," ","y","o","u","r"," ","p","r","o","j","e","c","t"," ","r","o","o","t"," ","d","i","r","e","c","t","o","r","y","\n","2","."," ","*","*","A","d","d"," ","o","n","e"," ","o","f"," ","t","h","e","s","e"," ","l","i","n","e","s",":","*","*","\n"," "," "," ","!","!","!","\n"," "," "," ","M","I","S","T","R","A","L","_","A","P","I","_","K","E","Y","=","y","o","u","r","_","m","i","s","t","r","a","l","_","a","p","i","_","k","e","y","_","h","e","r","e","\n"," "," "," ","!","!","!","\n"," "," "," ","O","R","\n"," "," "," ","!","!","!","\n"," "," "," ","G","R","O","Q","_","A","P","I","_","K","E","Y","=","y","o","u","r","_","g","r","o","q","_","a","p","i","_","k","e","y","_","h","e","r","e","\n"," "," "," ","!","!","!","\n","3","."," ","*","*","G","e","t"," ","A","P","I"," ","K","e","y","s",":","*","*","\n"," "," "," ","-"," ","M","i","s","t","r","a","l",":"," ","h","t","t","p","s",":","/","/","c","o","n","s","o","l","e",".","m","i","s","t","r","a","l",".","a","i","/","\n"," "," "," ","-"," ","G","r","o","q",":"," ","h","t","t","p","s",":","/","/","c","o","n","s","o","l","e",".","g","r","o","q",".","c","o","m","/","\n","4","."," ","*","*","R","e","s","t","a","r","t"," ","t","h","e"," ","a","p","p","l","i","c","a","t","i","o","n","*","*","\n","\n","*","*","E","x","a","m","p","l","e"," ",".","e","n","v"," ","f","i","l","e",":","*","*","\n","!","!","!","\n","M","I","S","T","R","A","L","_","A","P","I","_","K","E","Y","=","a","b","c","1","2","3","x","y","z","4","5","6","\n","G","R","O","Q","_","A","P","I","_","K","E","Y","=","d","e","f","7","8","9","u","v","w","0","1","2","\n","!","!","!">>
      [] t = "DIAG_GROQ_AUTH" ->
         <<"!","!"," ","*","*","G","r","o","q"," ","A","u","t","h","e","n","t","i","c","a","t","i","o","n"," ","E","r","r","o","r","*","*","\n","\n","Y","o","u","r"," ","G","R","O","Q","_","A","P","I","_","K","E","Y"," ","a","p","p","e","a","r","s"," ","t","o"," ","b","e"," ","i","n","v","a","l","i","d",".","\n","\n","*","*","S","t","e","p","s"," ","t","o"," ","f","i","x",":","*","*","\n","1","."," ","G","o"," ","t","o"," ","h","t","t","p","s",":","/","/","c","o","n","s","o","l","e",".","g","r","o","q",".","c","o","m","/","\n","2","."," ","G","e","n","e","r","a","t","e"," ","a"," ","n","e","w"," ","A","P","I"," ","k","e","y","\n","3","."," ","U","p","d","a","t","e"," ","y","o","u","r"," ","!",".","e","n","v","!"," ","f","i","l","e",":","\n"," "," "," ","!","!","!","\n"," "," "," ","G","R","O","Q","_","A","P","I","_","K","E","Y","=","y","o","u","r","_","n","e","w","_","k","e","y","_","h","e","r","e","\n"," "," "," ","!","!","!","\n","4","."," ","R","e","s","t","a","r","t"," ","t","h","e"," ","a","p","p","l","i","c","a","t","i","o","n","\n","\n","*","*","C","u","r","r","e","n","t"," ","e","r","r","o","r",":","*","*"," ","I","n","v","a","l","i","d"," ","A","P","I"," ","K","e","y">>
      [] t = "DIAG_GROQ_ERROR" ->
         <<"!","!"," ","*","*","G","r","o","q"," ","A","P","I"," ","E","r","r","o","r","*","*","\n","\n","S","o","m","e","t","h","i","n","g"," ","w","e","n","t"," ","w","r","o","n","g"," ","w","h","i","l","e"," ","c","o","n","t","a","c","t","i","n","g"," ","G","r","o","q"," ","A","P","I",".","\n","\n","*","*","E","r","r","o","r"," ","d","e","t","a","i","l","s",":","*","*"," ","C","o","n","n","e","c","t","i","o","n"," ","e","r","r","o","r",".","\n","\n","*","*","T","r","o","u","b","l","e","s","h","o","o","t","i","n","g",":","*","*","\n","-"," ","C","h","e","c","k"," ","y","o","u","r"," ","i","n","t","e","r","n","e","t"," ","c","o","n","n","e","c","t","i","o","n","\n","-"," ","V","e","r","i","f","y"," ","y","o","u","r"," ","A","P","I"," ","k","e","y"," ","i","n"," ","!",".","e","n","v","!"," ","f","i","l","e","\n","-"," ","T","r","y"," ","a","g","a","i","n"," ","i","n"," ","a"," ","f","e","w"," ","m","o","m","e","n","t","s","\n","-"," ","I","f"," ","i","s","s","u","e"," ","p","e","r","s","i","s","t","s",","," ","t","r","y"," ","u","s","i","n","g"," ","M","I","S","T","R","A","L","_","A","P","I","_","K","E","Y"," ","i","n","s","t","e","a","d">>
----------------------------------------------------------------------------
(* Character classes of Python's re module and of str methods. *)

IsDigit(c) == c \in {"0", "1", "2", "3", "4", "5", "6", "7", "8", "9"}

IsSpace(c) == c \in {" ", "\n", "\t"}

IsLetter(c) ==
    c \in {"a","b","c","d","e","f","g","h","i","j","k","l","m","n","o","p","q",
           "r","s","t","u","v","w","x","y","z",
           "A","B","C","D","E","F","G","H","I","J","K","L","M","N","O","P","Q",
           "R","S","T","U","V","W","X","Y","Z"}

IsWordChar(c) == IsLetter(c) \/ IsDigit(c) \/ c = "_"

LowerChar(c) ==
    CASE c = "A" -> "a" [] c = "B" -> "b" [] c = "C" -> "c" [] c = "D" -> "d"
      [] c = "E" -> "e" [] c = "F" -> "f" [] c = "G" -> "g" [] c = "H" -> "h"
      [] c = "I" -> "i" [] c = "J" -> "j" [] c = "K" -> "k" [] c = "L" -> "l"
      [] c = "M" -> "m" [] c = "N" -> "n" [] c = "O" -> "o" [] c = "P" -> "p"
      [] c = "Q" -> "q" [] c = "R" -> "r" [] c = "S" -> "s" [] c = "T" -> "t"
      [] c = "U" -> "u" [] c = "V" -> "v" [] c = "W" -> "w" [] c = "X" -> "x"
      [] c = "Y" -> "y" [] c = "Z" -> "z" [] OTHER -> c

\* The element of a one-element set.  The({ F(x) : x \in {e} }) is F(e) with
\* e computed once, as a local of the program is.
The(S) == CHOOSE v \in S : TRUE

\* a list given as a function on 1..n, as a tuple
Tuple(f) == SubSeq(f, 1, Len(f))

\* str.lower()
Lower(s) == The({ Tuple([i \in 1..Len(t) |-> LowerChar(t[i])]) : t \in {s} })

\* str.replace('_', ' ')
ReplaceUnderscore(s) ==
    The({ Tuple([i \in 1..Len(t) |-> IF t[i] = "_" THEN " " ELSE t[i]]) : t \in {s} })

\* the literal w stands in s at position i
MatchAt(s, i, w) ==
    /\ i >= 1
    /\ i + Len(w) - 1 <= Len(s)
    /\ \A k \in 1..Len(w) : s[i + k - 1] = w[k]

\* w in s
Contains(s, w) ==
    \E t \in {s}, v \in {w} :
        \E i \in 1..(Len(t) - Len(v) + 1) : t[i] = v[1] /\ MatchAt(t, i, v)

\* s.startswith(w)
StartsWith(s, w) == MatchAt(s, 1, w)

\* n digits stand in s from position i
DigitsAt(s, i, n) ==
    /\ i >= 1
    /\ i + n - 1 <= Len(s)
    /\ \A k \in 0..(n - 1) : IsDigit(s[i + k])

\* str.isdigit()
IsDigitStr(s) == Len(s) > 0 /\ \A k \in 1..Len(s) : IsDigit(s[k])

DigitValue(c) ==
    CASE c = "0" -> 0 [] c = "1" -> 1 [] c = "2" -> 2 [] c = "3" -> 3
      [] c = "4" -> 4 [] c = "5" -> 5 [] c = "6" -> 6 [] c = "7" -> 7
      [] c = "8" -> 8 [] c = "9" -> 9

RECURSIVE ToInt(_)
\* int(s) of a string of digits; int() of anything else raises ValueError
ToInt(s) ==
    IF s = <<>> THEN 0
    ELSE 10 * ToInt(SubSeq(s, 1, Len(s) - 1)) + DigitValue(s[Len(s)])

DigitChar(d) == <<"0", "1", "2", "3", "4", "5", "6", "7", "8", "9">>[d + 1]

RECURSIVE StrNat(_)
StrNat(n) == IF n < 10 THEN <<DigitChar(n)>>
             ELSE Append(StrNat(n \div 10), DigitChar(n % 10))

\* str(x) of a non-negative int or of None
Str(x) == IF x = None THEN <<"N", "o", "n", "e">> ELSE StrNat(x)

RECURSIVE SkipSpaces(_, _)
\* where a greedy \s* that started at i ends
SkipSpaces(s, i) ==
    IF i <= Len(s) /\ IsSpace(s[i]) THEN SkipSpaces(s, i + 1) ELSE i

RECURSIVE SkipDigits(_, _)
\* where a greedy \d* that started at i ends
SkipDigits(s, i) ==
    IF i <= Len(s) /\ IsDigit(s[i]) THEN SkipDigits(s, i + 1) ELSE i

\* x in xs, for a list xs
InSeq(x, xs) == \E k \in 1..Len(xs) : xs[k] = x

Abs(x) == IF x < 0 THEN -x ELSE x

Max(a, b) == IF a >= b THEN a ELSE b
----------------------------------------------------------------------------
(***************************************************************************)
(* Temporal extraction: the head of search_relevant_data.                  *)
(***************************************************************************)

\* months_map, in the insertion order its items() are iterated in
MonthsMap ==
    << <<"january", 1>>, <<"jan", 1>>, <<"february", 2>>, <<"feb", 2>>,
       <<"march", 3>>, <<"mar", 3>>, <<"april", 4>>, <<"apr", 4>>,
       <<"may", 5>>, <<"june", 6>>, <<"jun", 6>>, <<"july", 7>>, <<"jul", 7>>,
       <<"august", 8>>, <<"aug", 8>>, <<"september", 9>>, <<"sep", 9>>,
       <<"october", 10>>, <<"oct", 10>>, <<"november", 11>>, <<"nov", 11>>,
       <<"december", 12>>, <<"dec", 12>> >>

\* the month alternation of the date patterns: the same names, the same order
MonthAlternation == [k \in 1..Len(MonthsMap) |-> Chars(MonthsMap[k][1])]

\* _month_to_number: months_map.get(month_str.lower(), 1)
MonthToNumber(month_str) ==
    LET Get(low) ==
            LET hit == {k \in 1..Len(MonthsMap) : MonthAlternation[k] = low}
            IN  IF hit = {} THEN 1 ELSE MonthsMap[CHOOSE k \in hit : TRUE][2]
    IN  The({ Get(low) : low \in {Lower(month_str)} })

\* \b(20\d{2})\b matches at i
YearAt(s, i) ==
    /\ MatchAt(s, i, <<"2", "0">>)
    /\ DigitsAt(s, i + 2, 2)
    /\ (i = 1 \/ ~IsWordChar(s[i - 1]))
    /\ (i + 4 > Len(s) \/ ~IsWordChar(s[i + 4]))

\* re.findall(r'\b(20\d{2})\b', query): the matches, left to right.  Two
\* matches never overlap (a match has a word boundary at both its ends), so
\* the scan finds a match at every position where one stands.
YearsInQuery(query) ==
    The({ Tuple([k \in 1..Len(at) |-> SubSeq(query, at[k], at[k] + 3)]) :
          at \in {SelectSeq([i \in 1..Len(query) |-> i],
                            LAMBDA i : YearAt(query, i))} })

\* 20\d{2} stands at i
Year20At(s, i) == MatchAt(s, i, <<"2", "0">>) /\ DigitsAt(s, i + 2, 2)

\* \s+(20\d{2}) from position e
SpacesYearAt(s, e) ==
    e <= Len(s) /\ IsSpace(s[e]) /\ Year20At(s, SkipSpaces(s, e))

\* \s+(\d{1,2})\s+(20\d{2}) from position e with n digits
SpacesDayYearAt(s, e, n) ==
    /\ e <= Len(s) /\ IsSpace(s[e])
    /\ DigitsAt(s, SkipSpaces(s, e), n)
    /\ SpacesYearAt(s, SkipSpaces(s, e) + n)

\* what follows the month name stands at e: \s+(20\d{2}) in pattern (a),
\* \s+(\d{1,2})\s+(20\d{2}) in pattern (b) (with_day)
AfterMonthAt(s, e, with_day) ==
    IF with_day THEN SpacesDayYearAt(s, e, 2) \/ SpacesDayYearAt(s, e, 1)
    ELSE SpacesYearAt(s, e)

\* The first month name of the alternation that the rest of the pattern can
\* follow at position i, or 0.
FirstMonthAt(s, i, with_day) ==
    LET ok == {m \in 1..Len(MonthAlternation) :
                  /\ i <= Len(s) /\ s[i] = MonthAlternation[m][1]
                  /\ MatchAt(s, i, MonthAlternation[m])
                  /\ AfterMonthAt(s, i + Len(MonthAlternation[m]), with_day)}
    IN  IF ok = {} THEN 0 ELSE CHOOSE m \in ok : \A n \in ok : m <= n

\* (\d{1,2})\s+(month)\s+(20\d{2}) at i with n digits: its groups, or <<>>
DateAGroups(s, i, n) ==
    IF ~(DigitsAt(s, i, n) /\ i + n <= Len(s) /\ IsSpace(s[i + n])) THEN <<>>
    ELSE LET k == SkipSpaces(s, i + n)
             m == FirstMonthAt(s, k, FALSE)
         IN  IF m = 0 THEN <<>>
             ELSE LET y == SkipSpaces(s, k + Len(MonthAlternation[m]))
                  IN  <<SubSeq(s, i, i + n - 1), MonthAlternation[m],
                        SubSeq(s, y, y + 3)>>

\* pattern (a) at i: \d{1,2} is greedy, two digits are tried before one
DateAAt(s, i) ==
    IF DateAGroups(s, i, 2) # <<>> THEN DateAGroups(s, i, 2)
    ELSE DateAGroups(s, i, 1)

\* pattern (b) at i: (month)\s+(\d{1,2})\s+(20\d{2}): its groups, or <<>>
DateBAt(s, i) ==
    LET m == FirstMonthAt(s, i, TRUE)
    IN  IF m = 0 THEN <<>>
        ELSE LET e == i + Len(MonthAlternation[m])
                 d == SkipSpaces(s, e)
                 n == IF SpacesDayYearAt(s, e, 2) THEN 2 ELSE 1
                 y == SkipSpaces(s, d + n)
             IN  <<MonthAlternation[m], SubSeq(s, d, d + n - 1),
                   SubSeq(s, y, y + 3)>>

\* -(\d{1,2})-(\d{1,2}) from position e, the month written with n digits
DashMonthDayAt(s, e, n) ==
    /\ MatchAt(s, e, <<"-">>)
    /\ DigitsAt(s, e + 1, n)
    /\ MatchAt(s, e + 1 + n, <<"-">>)
    /\ DigitsAt(s, e + 2 + n, 1)

\* pattern (c) at i: (20\d{2})-(\d{1,2})-(\d{1,2}): its groups, or <<>>
DateCAt(s, i) ==
    IF ~(Year20At(s, i)
         /\ (DashMonthDayAt(s, i + 4, 2) \/ DashMonthDayAt(s, i + 4, 1)))
    THEN <<>>
    ELSE LET n == IF DashMonthDayAt(s, i + 4, 2) THEN 2 ELSE 1
             d == i + 6 + n
             dn == IF DigitsAt(s, d, 2) THEN 2 ELSE 1
         IN  <<SubSeq(s, i, i + 3), SubSeq(s, i + 5, i + 4 + n),
               SubSeq(s, d, d + dn - 1)>>

\* last\s+(\d+)\s+months? at i: the digits of group 1, or <<>>
LastMonthsAt(s, i) ==
    IF ~(MatchAt(s, i, <<"l", "a", "s", "t">>)
         /\ i + 4 <= Len(s) /\ IsSpace(s[i + 4]))
    THEN <<>>
    ELSE LET d == SkipSpaces(s, i + 4)
             e == SkipDigits(s, d)
         IN  IF e > d /\ e <= Len(s) /\ IsSpace(s[e])
                /\ MatchAt(s, SkipSpaces(s, e), <<"m", "o", "n", "t", "h">>)
             THEN SubSeq(s, d, e - 1)
             ELSE <<>>

\* the groups of the match of a pattern at position i, or <<>>: the three
\* date_patterns "a", "b", "c", and "last" for the pattern of line 921
PatternAt(s, i, pattern) ==
    CASE pattern = "a" -> DateAAt(s, i)
      [] pattern = "b" -> DateBAt(s, i)
      [] pattern = "c" -> DateCAt(s, i)
      [] pattern = "last" -> LastMonthsAt(s, i)

\* re.search(pattern, s).groups(): the match at the leftmost position that
\* has one, or <<>>
SearchGroups(s, pattern) ==
    LET Leftmost(hits) ==
            IF hits = {} THEN <<>>
            ELSE PatternAt(s, CHOOSE i \in hits : \A j \in hits : i <= j, pattern)
    IN  The({ Leftmost(hits) :
              hits \in { {i \in 1..Len(s) : PatternAt(s, i, pattern) # <<>>} } })

\* date_patterns, in order
DatePatternGroups(s, p) == SearchGroups(s, <<"a", "b", "c">>[p])

NoDate == [year |-> None, month |-> None, day |-> None]

\* the body of `if match:`: the roles given to the three groups.  The
\* result is [raised, date]; raised is the ValueError of an int() applied
\* to a group that is not a numeral.
DateOfGroups(groups) ==
    IF IsDigitStr(groups[1]) /\ Len(groups[1]) = 4
    THEN [raised |-> ~(IsDigitStr(groups[2]) /\ IsDigitStr(groups[3])),
          date |-> IF IsDigitStr(groups[2]) /\ IsDigitStr(groups[3])
                   THEN [year |-> ToInt(groups[1]), month |-> ToInt(groups[2]),
                         day |-> ToInt(groups[3])]
                   ELSE NoDate]
    ELSE IF StartsWith(groups[3], <<"2", "0">>)
    THEN [raised |-> ~(IsDigitStr(groups[1]) /\ IsDigitStr(groups[3])),
          date |-> IF IsDigitStr(groups[1]) /\ IsDigitStr(groups[3])
                   THEN [year |-> ToInt(groups[3]),
                         month |-> MonthToNumber(groups[2]),
                         day |-> ToInt(groups[1])]
                   ELSE NoDate]
    ELSE [raised |-> ~(IsDigitStr(groups[2]) /\ IsDigitStr(groups[3])),
          date |-> IF IsDigitStr(groups[2]) /\ IsDigitStr(groups[3])
                   THEN [year |-> ToInt(groups[3]),
                         month |-> MonthToNumber(groups[1]),
                         day |-> ToInt(groups[2])]
                   ELSE NoDate]

RECURSIVE SpecificDateFrom(_, _)
\* the loop over date_patterns from pattern p on: break on the first match
SpecificDateFrom(query_lower, p) ==
    IF p > 3 THEN [raised |-> FALSE, date |-> NoDate]
    ELSE The({ IF groups # <<>> THEN DateOfGroups(groups)
               ELSE SpecificDateFrom(query_lower, p + 1) :
               groups \in {DatePatternGroups(query_lower, p)} })

SpecificDate(query_lower) == SpecificDateFrom(query_lower, 1)

RECURSIVE MonthsNamedFrom(_, _)
MonthsNamedFrom(query_lower, k) ==
    IF k > Len(MonthsMap) THEN <<>>
    ELSE (IF Contains(query_lower, Chars(MonthsMap[k][1]))
          THEN <<MonthsMap[k][2]>> ELSE <<>>)
         \o MonthsNamedFrom(query_lower, k + 1)

\* the month loop: one entry per name of months_map found in the query
MonthsNamed(query_lower) == MonthsNamedFrom(query_lower, 1)

\* list(range(a, b))
Range(a, b) == Tuple([k \in 1..(IF b > a THEN b - a ELSE 0) |-> a + k - 1])

GenericKeywords ==
    <<"summary", "overview", "tell me about", "show me", "uploaded",
      "this file", "analyze", "what is">>

\* any(keyword in text for keyword in keywords)
AnyKeyword(text, keywords) ==
    \E k \in 1..Len(keywords) : Contains(text, Chars(keywords[k]))

(***************************************************************************)
(* Lines 875-929: what search_relevant_data derives from the query before  *)
(* it looks at a profile.  raised: the ValueError of line 897.             *)
(***************************************************************************)
ExtractIntent(query) ==
    LET Intent(query_lower) ==
            The({ [raised |-> sd.raised,
                   years |-> years_in_query,
                   specific_date |-> sd.date,
                   months |-> IF last_months # <<>> /\ years_in_query # <<>>
                              THEN Range(Max(1, 13 - ToInt(last_months)), 13)
                              ELSE IF sd.date = NoDate THEN MonthsNamed(query_lower)
                              ELSE <<>>,
                   generic |-> AnyKeyword(query_lower, GenericKeywords)] :
                  years_in_query \in {YearsInQuery(query)},
                  sd \in {SpecificDate(query_lower)},
                  last_months \in {SearchGroups(query_lower, "last")} })
    IN  The({ Intent(query_lower) : query_lower \in {Lower(query)} })
----------------------------------------------------------------------------
(***************************************************************************)
(* Profile records.  A profile is the dictionary load_argo_data or the     *)
(* upload handler put into the session:                                    *)
(*   path       _file_path (base set) or the uploaded file's name          *)
(*   year, month, day   temporal.year/.month/.day, None when absent        *)
(*   datetime   temporal.datetime, "" when absent                          *)
(*   has_regions, regions   geospatial.regional_seas                       *)
(*   TEMP, PSAL, PRES, DOXY, CHLA   the variable's entry: present, and     *)
(*              its statistics (has_stats: the key is there; min, max,     *)
(*              mean in hundredths, None when absent)                      *)
(*   is_uploaded, uploaded_filename, upload_timestamp   the three tags the *)
(*              upload handler sets: FALSE, "" and None on a base profile  *)
(*   well_formed   FALSE when the entry 'temporal' of the profile is not a *)
(*              dictionary, so that temporal.get(...) raises               *)
(*              AttributeError                                             *)
(***************************************************************************)
NoStats == [has_stats |-> FALSE, min |-> None, max |-> None, mean |-> None]

Stats(lo, hi, mean) == [has_stats |-> TRUE, min |-> lo, max |-> hi, mean |-> mean]

Absent == [present |-> FALSE, stats |-> NoStats]

Present(stats) == [present |-> TRUE, stats |-> stats]

\* profile.get(key) is truthy, for a number or None
Truthy(x) == x # None /\ x # 0

(***************************************************************************)
(* Lines 932-1008: the strict score of one profile.  raised: the body of   *)
(* the try raised (the TypeError of line 969 on a profile without month),  *)
(* and the profile is skipped by `continue`.                               *)
(***************************************************************************)
\* a tier that gives nothing for the year and month of the date alone
StrictDateTierDayOnly(profile, sd) ==
    IF profile.year = sd.year /\ profile.month = sd.month
    THEN IF profile.day = sd.day THEN 20
         ELSE IF Truthy(profile.day) /\ Abs(profile.day - sd.day) <= 3 THEN 15
         ELSE IF Truthy(profile.day) /\ Abs(profile.day - sd.day) <= 7 THEN 10
         ELSE 0
    ELSE 0

\* a tier that adds up every day rule the profile meets
StrictDateTierAdditive(profile, sd) ==
    IF profile.year = sd.year /\ profile.month = sd.month
    THEN (IF profile.day = sd.day THEN 20 ELSE 0)
         + (IF Truthy(profile.day) /\ Abs(profile.day - sd.day) <= 3 THEN 15 ELSE 0)
         + (IF Truthy(profile.day) /\ Abs(profile.day - sd.day) <= 7 THEN 10 ELSE 0)
         + 8
    ELSE 0

StrictDateTier(profile, sd) ==
    IF profile.year = sd.year /\ profile.month = sd.month
    THEN IF profile.day = sd.day THEN 20
         ELSE IF Truthy(profile.day) /\ Abs(profile.day - sd.day) <= 3 THEN 15
         ELSE IF Truthy(profile.day) /\ Abs(profile.day - sd.day) <= 7 THEN 10
         ELSE 8
    ELSE 0

\* the year/month tier; -1 stands for the TypeError of abs(None - m)
StrictYearTier(profile, years, months) ==
    IF InSeq(Str(profile.year), years)
    THEN IF months # <<>>
         THEN IF InSeq(profile.month, months) THEN 10 + 8
              ELSE IF profile.month = None THEN -1
              ELSE IF \E k \in 1..Len(months) : Abs(profile.month - months[k]) <= 1
                   THEN 10 + 5
              ELSE 10
         ELSE 10 + 5
    ELSE 0

\* +5 for every region of the profile named in the query
RegionHits(profile, query_lower) ==
    Cardinality({k \in 1..Len(profile.regions) :
        Contains(query_lower, ReplaceUnderscore(Lower(Chars(profile.regions[k]))))})

StrictParamTier(profile, query_lower) ==
      (IF AnyKeyword(query_lower, <<"temperature", "temp">>) /\ profile.TEMP.present
       THEN 3 ELSE 0)
    + (IF AnyKeyword(query_lower, <<"salinity", "salt", "psal">>) /\ profile.PSAL.present
       THEN 3 ELSE 0)
    + (IF AnyKeyword(query_lower, <<"oxygen", "doxy">>) /\ profile.DOXY.present
       THEN 3 ELSE 0)
    + (IF AnyKeyword(query_lower, <<"chlorophyll", "chla">>) /\ profile.CHLA.present
       THEN 3 ELSE 0)
    + (IF AnyKeyword(query_lower, <<"pressure", "depth", "pres">>) /\ profile.PRES.present
       THEN 3 ELSE 0)

\* a strict pass without the fallback
StrictFallbackNone(profile, score) == score

\* a fallback that gives 1 to every profile that scored nothing
StrictFallbackAll(profile, score) == IF score = 0 THEN 1 ELSE score

\* the `# Fallback` of lines 1002-1005
StrictFallback(profile, score) ==
    IF score = 0 /\ profile.TEMP.present THEN 1 ELSE score

StrictScore(profile, query_lower, intent) ==
    LET uploaded == IF intent.generic /\ profile.is_uploaded THEN 10 ELSE 0
        temporal ==
            IF intent.specific_date # NoDate
            THEN StrictDateTier(profile, intent.specific_date)
            ELSE IF intent.years # <<>>
            THEN StrictYearTier(profile, intent.years, intent.months)
            ELSE 0
    IN  IF ~profile.well_formed \/ temporal = -1 THEN [raised |-> TRUE, score |-> 0]
        ELSE [raised |-> FALSE,
              score |-> StrictFallback(profile,
                            uploaded + temporal
                            + 5 * RegionHits(profile, query_lower)
                            + StrictParamTier(profile, query_lower))]

(***************************************************************************)
(* Lines 1031-1084: the relaxed score of one profile.  -1 stands for the   *)
(* TypeError of abs(None - y) or abs(None - m).                            *)
(***************************************************************************)
RelaxedDateTier(profile, sd) ==
    IF profile.year = sd.year
    THEN 6 + (IF profile.month = sd.month
              THEN 8 + (IF Truthy(profile.day) /\ Abs(profile.day - sd.day) <= 14
                        THEN 10 ELSE 0)
              ELSE IF Truthy(profile.month) /\ Abs(profile.month - sd.month) <= 1
              THEN 4
              ELSE 0)
    ELSE 0

\* a year tier that weighs a neighbouring year like the strict pass weighs
\* the year itself
RelaxedYearTierHeavy(profile, years) ==
    LET target_years == [k \in 1..Len(years) |-> ToInt(years[k])]
    IN  IF InSeq(profile.year, target_years) THEN 8
        ELSE IF profile.year = None THEN -1
        ELSE IF \E k \in 1..Len(target_years) : Abs(profile.year - target_years[k]) <= 1
             THEN 10 + 8
        ELSE 0

RelaxedYearTier(profile, years) ==
    LET target_years == [k \in 1..Len(years) |-> ToInt(years[k])]
    IN  IF InSeq(profile.year, target_years) THEN 8
        ELSE IF profile.year = None THEN -1
        ELSE IF \E k \in 1..Len(target_years) : Abs(profile.year - target_years[k]) <= 1
             THEN 4
        ELSE 0

RelaxedMonthTier(profile, months) ==
    IF months = <<>> THEN 0
    ELSE IF InSeq(profile.month, months) THEN 6
    ELSE IF profile.month = None THEN -1
    ELSE IF \E k \in 1..Len(months) : Abs(profile.month - months[k]) <= 2 THEN 3
    ELSE 0

RelaxedParamTier(profile, query_lower) ==
    IF AnyKeyword(query_lower, <<"temperature", "salinity", "analysis">>)
    THEN (IF profile.TEMP.present THEN 2 ELSE 0)
         + (IF profile.PSAL.present THEN 2 ELSE 0)
    ELSE 0

RelaxedScore(profile, query_lower, years, months, specific_date) ==
    LET temporal ==
            IF specific_date # NoDate THEN RelaxedDateTier(profile, specific_date)
            ELSE IF years # <<>> THEN RelaxedYearTier(profile, years)
            ELSE 0
        month == IF temporal = -1 THEN 0 ELSE RelaxedMonthTier(profile, months)
    IN  IF ~profile.well_formed \/ temporal = -1 \/ month = -1
        THEN [raised |-> TRUE, score |-> 0]
        ELSE [raised |-> FALSE,
              score |-> temporal + month + 4 * RegionHits(profile, query_lower)
                        + RelaxedParamTier(profile, query_lower)]

(***************************************************************************)
(* The list relevant_profiles: (profile, score) pairs, a profile being     *)
(* named by its position in argo_data.                                     *)
(***************************************************************************)
RECURSIVE KeptUntilRaised(_, _)
\* a loop that ends at the first profile whose scoring raised
KeptUntilRaised(scores, i) ==
    IF i > Len(scores) \/ scores[i].raised THEN <<>>
    ELSE (IF scores[i].score > 0
          THEN << [idx |-> i, score |-> scores[i].score] >> ELSE <<>>)
         \o KeptUntilRaised(scores, i + 1)

RECURSIVE Kept(_, _)
\* lines 1010-1011 / 1086-1087 over the whole loop: the profiles that were
\* not skipped and scored > 0, in the order of argo_data
Kept(scores, i) ==
    IF i > Len(scores) THEN <<>>
    ELSE (IF ~scores[i].raised /\ scores[i].score > 0
          THEN << [idx |-> i, score |-> scores[i].score] >> ELSE <<>>)
         \o Kept(scores, i + 1)

\* a sort that puts x ahead of the entries of its own score
InsertDescUnstable(xs, x) ==
    LET ahead == Cardinality({k \in 1..Len(xs) : xs[k].score > x.score})
    IN  SubSeq(xs, 1, ahead) \o <<x>> \o SubSeq(xs, ahead + 1, Len(xs))

\* where list.sort(key=score, reverse=True) leaves x among the sorted xs:
\* behind every entry whose score is not lower
InsertDesc(xs, x) ==
    LET ahead == Cardinality({k \in 1..Len(xs) : xs[k].score >= x.score})
    IN  SubSeq(xs, 1, ahead) \o <<x>> \o SubSeq(xs, ahead + 1, Len(xs))

RECURSIVE SortDescPrefix(_, _)
SortDescPrefix(xs, n) ==
    IF n = 0 THEN <<>>
    ELSE The({ InsertDesc(sorted, x) :
               sorted \in {SortDescPrefix(xs, n - 1)}, x \in {xs[n]} })

\* relevant_profiles.sort(key=lambda x: x[1], reverse=True): stable
SortDesc(xs) == The({ SortDescPrefix(ys, Len(ys)) : ys \in {xs} })

\* the length the result is cut to
MaxResults == 15

\* [profile[0] for profile in relevant_profiles[:15]]
TopProfiles(xs) ==
    The({ Tuple([k \in 1..(IF Len(ys) < MaxResults THEN Len(ys) ELSE MaxResults) |->
                    ys[k].idx]) : ys \in {xs} })

\* lines 1025-1090
search_relevant_data_flexible(query, argo_data, years, months, specific_date) ==
    LET Scores(query_lower) ==
            Tuple([i \in 1..Len(argo_data) |->
                      RelaxedScore(argo_data[i], query_lower, years, months,
                                   specific_date)])
    IN  The({ [scores |-> scores, result |-> TopProfiles(SortDesc(Kept(scores, 1)))] :
              scores \in {The({ Scores(query_lower) :
                                query_lower \in {Lower(query)} })} })

\* a hand-over that does not ask for a temporal signal
BroadensWithoutSignal(relevant_profiles, intent) == relevant_profiles = <<>>

\* line 1016: whether the strict pass hands over to the relaxed search
Broadens(relevant_profiles, intent) ==
    /\ relevant_profiles = <<>>
    /\ (intent.years # <<>> \/ intent.months # <<>> \/ intent.specific_date # NoDate)

(***************************************************************************)
(* Lines 873-1023.  raised: the call ended in an exception.  Besides the   *)
(* returned list (result: positions in argo_data) the record keeps the     *)
(* locals of the call: the intent, the scores of each pass, the strict     *)
(* relevant_profiles and whether the relaxed search was called.            *)
(***************************************************************************)
search_relevant_data(query, argo_data) ==
    LET Returned(intent, scores, relevant_profiles) ==
            IF Broadens(relevant_profiles, intent)
            THEN The({ [raised |-> FALSE, intent |-> intent, strict_scores |-> scores,
                        strict |-> <<>>, relaxed |-> TRUE,
                        relaxed_scores |-> flexible.scores,
                        result |-> flexible.result] :
                       flexible \in {search_relevant_data_flexible(query, argo_data,
                                        intent.years, intent.months,
                                        intent.specific_date)} })
            ELSE [raised |-> FALSE, intent |-> intent, strict_scores |-> scores,
                  strict |-> Tuple([k \in 1..Len(relevant_profiles) |->
                                       relevant_profiles[k].idx]),
                  relaxed |-> FALSE, relaxed_scores |-> <<>>,
                  result |-> TopProfiles(relevant_profiles)]
        Scored(intent, scores) ==
            The({ Returned(intent, scores, relevant_profiles) :
                  relevant_profiles \in {SortDesc(Kept(scores, 1))} })
        StrictPass(intent, query_lower) ==
            IF intent.raised
            THEN [raised |-> TRUE, intent |-> intent, strict_scores |-> <<>>,
                  strict |-> <<>>, relaxed |-> FALSE, relaxed_scores |-> <<>>,
                  result |-> <<>>]
            ELSE The({ Scored(intent, scores) :
                       scores \in {Tuple([i \in 1..Len(argo_data) |->
                                       StrictScore(argo_data[i], query_lower, intent)])} })
    IN  The({ StrictPass(intent, query_lower) :
              intent \in {ExtractIntent(query)}, query_lower \in {Lower(query)} })
----------------------------------------------------------------------------
(***************************************************************************)
(* create_context_summary, lines 1092-1200.  The returned string is kept   *)
(* as the list context_parts that " || ".join makes it from; a part is a   *)
(* record of the fields its f-string prints.                               *)
(***************************************************************************)

\* f"{n:02d}"
Pad2(n) == IF n < 10 THEN <<"0">> \o StrNat(n) ELSE StrNat(n)

\* f"{year}-{month:02d}", the key of profiles_by_time
TimeKey(profile) == Str(profile.year) \o <<"-">> \o Pad2(profile.month)

\* ord() of the characters a time key is made of
Ord(c) == IF c = "-" THEN 45 ELSE 48 + DigitValue(c)

RECURSIVE StrLess(_, _)
\* a < b for str
StrLess(a, b) ==
    IF b = <<>> THEN FALSE
    ELSE IF a = <<>> THEN TRUE
    ELSE IF a[1] # b[1] THEN Ord(a[1]) < Ord(b[1])
    ELSE The({ StrLess(x, y) : x \in {Tail(a)}, y \in {Tail(b)} })

\* the keys of profiles_by_time (lines 1101-1106)
TimeKeys(profiles) ==
    {TimeKey(profiles[k]) : k \in {j \in 1..Len(profiles) :
        Truthy(profiles[j].year) /\ Truthy(profiles[j].month)}}

\* lines 1109-1111: the TEMPORAL RANGE part, when there is one
RangeParts(profiles) ==
    The({ IF Cardinality(keys) > 1
          THEN << [kind |-> "TEMPORAL RANGE",
                   first |-> CHOOSE a \in keys : \A b \in keys \ {a} : StrLess(a, b),
                   last |-> CHOOSE a \in keys : \A b \in keys \ {a} : StrLess(b, a),
                   count |-> Len(profiles)] >>
          ELSE <<>> :
          keys \in {TimeKeys(profiles)} })

\* temporal.get('datetime', 'unknown')[:10]
DateOf(profile) ==
    The({ SubSeq(dt, 1, IF Len(dt) < 10 THEN Len(dt) ELSE 10) :
          dt \in {IF profile.datetime = "" THEN Chars("unknown")
                  ELSE Chars(profile.datetime)} })

\* spatial.get('regional_seas', ['Ocean']), the list ', '.join is given
RegionsOf(profile) == IF profile.has_regions THEN profile.regions ELSE <<"Ocean">>

\* stats.get(key, 0)
StatOr0(x) == IF x = None THEN 0 ELSE x

\* the TEMP or SAL clause of a part: <<min, max, mean>> as printed, or <<>>
\* when the clause is not printed
MinMaxMean(shown, var) ==
    IF shown /\ var.present
    THEN <<StatOr0(var.stats.min), StatOr0(var.stats.max), StatOr0(var.stats.mean)>>
    ELSE <<>>

\* the DEPTH clause: <<max>> as printed, or <<>>
DepthMax(shown, var) ==
    IF shown /\ var.present THEN <<StatOr0(var.stats.max)>> ELSE <<>>

\* one "REAL DATA [tag] - Profile ..." part
DataPart(profile, tag, temp_shown, sal_shown, depth_shown) ==
    [kind |-> "REAL DATA", tag |-> tag, date |-> DateOf(profile),
     regions |-> RegionsOf(profile), file |-> profile.uploaded_filename,
     temp |-> MinMaxMean(temp_shown, profile.TEMP),
     sal |-> MinMaxMean(sal_shown, profile.PSAL),
     depth |-> DepthMax(depth_shown, profile.PRES)]

RECURSIVE Filter(_, _, _)
\* the elements xs[k], k >= i, with keep[k], in order
Filter(xs, keep, i) ==
    IF i > Len(xs) THEN <<>>
    ELSE (IF keep[i] THEN <<xs[i]>> ELSE <<>>) \o Filter(xs, keep, i + 1)

\* xs[:n]
Take(xs, n) == SubSeq(xs, 1, IF Len(xs) < n THEN Len(xs) ELSE n)

PerYear == 3

PerSummary == 10

RECURSIVE SortedInts(_)
\* sorted(keys) of a set of ints
SortedInts(S) ==
    IF S = {} THEN <<>>
    ELSE The({ <<m>> \o SortedInts(T \ {m}) :
               <<T, m>> \in {<<U, CHOOSE a \in U : \A b \in U : a <= b>> : U \in {S}} })

RECURSIVE Concat(_, _)
Concat(seqs, i) == IF i > Len(seqs) THEN <<>> ELSE seqs[i] \o Concat(seqs, i + 1)

\* a comparison that prints every profile of a named year
ComparisonPartsAll(profiles, query_lower, years_in_query, is_summary) ==
    LET Named(p) == InSeq(Str(p.year), years_in_query)
        OfYear(y) == Filter(profiles,
                            Tuple([k \in 1..Len(profiles) |->
                                Named(profiles[k]) /\ profiles[k].year = y]), 1)
        Parts(y, temp_shown, sal_shown) ==
            The({ Tuple([k \in 1..Len(of_year) |->
                            DataPart(of_year[k], Str(y), temp_shown, sal_shown,
                                     is_summary)]) :
                  of_year \in {OfYear(y)} })
    IN  The({ Concat(Tuple([k \in 1..Len(years) |->
                              Parts(years[k], temp_shown, sal_shown)]), 1) :
              years \in {SortedInts({profiles[k].year :
                             k \in {j \in 1..Len(profiles) : Named(profiles[j])}})},
              temp_shown \in {AnyKeyword(query_lower, <<"temperature", "temp">>)
                              \/ is_summary},
              sal_shown \in {AnyKeyword(query_lower, <<"salinity", "salt">>)
                             \/ is_summary} })

\* lines 1117-1160: the parts of a comparison query
ComparisonParts(profiles, query_lower, years_in_query, is_summary) ==
    LET Named(p) == InSeq(Str(p.year), years_in_query)
        OfYear(y) == Take(Filter(profiles,
                                 Tuple([k \in 1..Len(profiles) |->
                                     Named(profiles[k]) /\ profiles[k].year = y]), 1),
                          PerYear)
        Parts(y, temp_shown, sal_shown) ==
            The({ Tuple([k \in 1..Len(of_year) |->
                            DataPart(of_year[k], Str(y), temp_shown, sal_shown,
                                     is_summary)]) :
                  of_year \in {OfYear(y)} })
    IN  The({ Concat(Tuple([k \in 1..Len(years) |->
                              Parts(years[k], temp_shown, sal_shown)]), 1) :
              years \in {SortedInts({profiles[k].year :
                             k \in {j \in 1..Len(profiles) : Named(profiles[j])}})},
              temp_shown \in {AnyKeyword(query_lower, <<"temperature", "temp">>)
                              \/ is_summary},
              sal_shown \in {AnyKeyword(query_lower, <<"salinity", "salt">>)
                             \/ is_summary} })

\* line 1173 formats month and day with :02d: a TypeError on None
PlainRaises(profile) == profile.month = None \/ profile.day = None

\* lines 1161-1198: the parts of any other query
PlainParts(profiles) ==
    The({ Tuple([k \in 1..Len(first) |->
                    DataPart(first[k],
                             Str(first[k].year) \o <<"-">> \o Pad2(first[k].month)
                                 \o <<"-">> \o Pad2(first[k].day),
                             TRUE, TRUE, TRUE)]) :
          first \in {Take(profiles, PerSummary)} })

NoDataSentinel == "No relevant data found in the specified time period."

\* lines 1097-1200: the summary of a list that passed the check of line 1094
SummaryOf(profiles, query) ==
    LET Summary(query_lower, years_in_query, first) ==
            The({ IF \E k \in 1..Len(profiles) : ~profiles[k].well_formed  \* line 1103
                  THEN [raised |-> TRUE, sentinel |-> "", parts |-> <<>>]
                  ELSE IF is_comparison /\ years_in_query # <<>>
                  THEN [raised |-> FALSE, sentinel |-> "",
                        parts |-> RangeParts(profiles)
                                  \o ComparisonParts(profiles, query_lower,
                                                     years_in_query, is_summary)]
                  ELSE IF \E k \in 1..Len(first) : PlainRaises(first[k])
                  THEN [raised |-> TRUE, sentinel |-> "", parts |-> <<>>]
                  ELSE [raised |-> FALSE, sentinel |-> "",
                        parts |-> RangeParts(profiles) \o PlainParts(profiles)] :
                  is_summary \in {AnyKeyword(query_lower,
                      <<"summary", "overview", "tell me", "analyze", "analysis">>)},
                  is_comparison \in {AnyKeyword(query_lower,
                      <<"compare", "difference", "vs", "versus">>)} })
    IN  The({ Summary(query_lower, years_in_query, first) :
              query_lower \in {Lower(query)},
              years_in_query \in {YearsInQuery(query)},
              first \in {Take(profiles, PerSummary)} })

\* a summarizer that does not look whether the list is empty
SummaryUnguarded(profiles, query) == SummaryOf(profiles, query)

\* lines 1092-1200
create_context_summary(profiles, query) ==
    IF profiles = <<>>
    THEN [raised |-> FALSE, sentinel |-> NoDataSentinel, parts |-> <<>>]
    ELSE SummaryOf(profiles, query)
----------------------------------------------------------------------------
(***************************************************************************)
(* The inputs the model draws from.                                        *)
(***************************************************************************)

\* a profile of the base set, as load_argo_data returns it
Profile(path, year, month, day, datetime, regions, temp, psal, pres) ==
    [path |-> path, year |-> year, month |-> month, day |-> day,
     datetime |-> datetime, has_regions |-> TRUE, regions |-> regions,
     TEMP |-> temp, PSAL |-> psal, PRES |-> pres, DOXY |-> Absent, CHLA |-> Absent,
     is_uploaded |-> FALSE, uploaded_filename |-> "", upload_timestamp |-> None,
     well_formed |-> TRUE]

\* the profiles a base set is made of; the first is the record of the
\* specification's Bay of Bengal scenario, six lack a field, and the
\* twelfth has a string where its 'temporal' dictionary should be
Pool ==
    << Profile(1, 2023, 8, 10, "2023-08-10T06:30:00Z", <<"Bay_of_Bengal">>,
               Present(Stats(2200, 2900, 2550)), Present(Stats(3400, 3600, 3510)), Absent),
       Profile(2, 2023, 8, 15, "2023-08-15T12:00:00Z", <<"Arabian_Sea">>,
               Present(Stats(2410, 3005, 2750)), Absent, Present(Stats(0, 198550, 90000))),
       Profile(3, 2020, 8, 3, "2020-08-03T00:00:00Z", <<"Arabian_Sea">>,
               Absent, Present(Stats(3500, 3650, 3580)), Absent),
       Profile(4, 2022, 3, 20, "2022-03-20T00:00:00Z", <<>>,
               Absent, Absent, Present(Stats(0, 100050, 50000))),
       Profile(5, 2021, 8, 20, "2021-08-20T00:00:00Z", <<"Bay_of_Bengal">>,
               Absent, Present(Stats(3300, 3500, 3400)), Absent),
       Profile(6, 2018, 1, 5, "2018-01-05T00:00:00Z", <<>>,
               Absent, Present(Stats(3300, 3500, 3400)), Absent),
       Profile(7, 2023, None, 10, "", <<>>,
               Present(Stats(2000, 2850, 2430)), Absent, Absent),
       Profile(8, 2021, 8, None, "", <<>>,
               Absent, Present(Stats(3300, 3500, 3400)), Absent),
       Profile(9, None, 8, 15, "", <<>>,
               Absent, Present(Stats(3300, 3500, 3400)), Absent),
       Profile(10, 2022, 9, 1, "2022-09-01T00:00:00Z", <<>>,
               Present(NoStats), Absent, Absent),
       Profile(11, 2022, None, 5, "", <<>>,
               Absent, Present(Stats(3300, 3500, 3400)), Absent),
       [Profile(12, None, None, None, "", <<"Bay_of_Bengal">>,
                Present(Stats(2200, 2900, 2550)), Absent, Absent)
           EXCEPT !.well_formed = FALSE],
       Profile(13, 2023, 8, None, "", <<>>,
               Absent, Present(Stats(3300, 3500, 3400)), Absent),
       Profile(14, 2023, 7, 20, "2023-07-20T00:00:00Z", <<"Arabian_Sea">>,
               Absent, Present(Stats(3500, 3650, 3580)), Absent) >>

\* the longest base set drawn from Pool
MaxData == 2

\* the length of BigData: more profiles than a result holds
BigLen == 17

\* a base set long enough for the cut to 15 to cut: profiles of August 2022
\* and August to October 2023, all but the third with TEMP
BigData ==
    [i \in 1..BigLen |->
        Profile(100 + i, IF i % 3 = 0 THEN 2022 ELSE 2023, 8 + (i % 3), i,
                "2023-08-10T06:30:00Z",
                IF i % 2 = 0 THEN <<"Bay_of_Bengal">> ELSE <<"Arabian_Sea">>,
                IF i = 3 THEN Absent ELSE Present(Stats(2000 + i, 2900, 2500)),
                IF i % 4 = 0 THEN Present(Stats(3400, 3600, 3500)) ELSE Absent,
                Absent)]

\* as long, without TEMP: profiles of June to September 2020 and 2022 with
\* salinity only
BigSalinity ==
    [i \in 1..BigLen |->
        Profile(200 + i, IF i % 2 = 0 THEN 2020 ELSE 2022, 6 + (i % 4), i,
                "2022-09-01T00:00:00Z", <<>>,
                Absent, Present(Stats(3400, 3600, 3500)), Absent)]

\* the base sets: the two long ones, and every list of up to MaxData
\* different profiles of Pool
Collections ==
    {BigData, BigSalinity} \cup
    UNION {{[k \in 1..n |-> Pool[f[k]]] :
              f \in {g \in [1..n -> 1..Len(Pool)] :
                        \A a, b \in 1..n : a # b => g[a] # g[b]}} : n \in 0..MaxData}

\* the queries
Queries ==
    {"15 August 2023", "2023-08-15", "August 15 2023",
     "temperature in Bay of Bengal August 2023",
     "salinity 2021", "data for 2021", "analysis of august 2021", "hello",
     "summary 2021", "compare 2020 vs 2022 temperature", "last 3 months of 2023",
     "show me the uploaded file", "march", "12 Aug 2023 last 2 months"}
----------------------------------------------------------------------------
(***************************************************************************)
(* State.  The fields of st.session_state set at lines 1225-1234, the two  *)
(* flags of the chatbot, and the locals of the script run in progress.     *)
(* last_profiles = <<>> stands for its initial None.  active_file = ""     *)
(* stands for None.                                                        *)
(***************************************************************************)
VARIABLES
    argo_data,          \* st.session_state.argo_data, once loaded
    uploaded_files,     \* st.session_state.uploaded_files
    messages,           \* st.session_state.messages: [role, content]
    history,            \* st.session_state.history
    last_profiles,      \* st.session_state.last_profiles
    last_query,         \* st.session_state.last_query
    active_file,        \* st.session_state.active_file
    processing,         \* st.session_state.processing
    has_mistral,        \* chatbot.has_mistral
    has_groq,           \* chatbot.has_groq
    pc,                 \* where the script run stands
    user_message,       \* last_user_message, the query being served
    search,             \* the last call of search_relevant_data: its locals
    relevant_profiles,  \* relevant_profiles of main(): a list of profiles
    context,            \* the last call of create_context_summary
    primary,            \* how query_mistral_streaming ended in this run
    tally               \* calls made since the last query was accepted,
                        \* and in the current run

vars == <<argo_data, uploaded_files, messages, history, last_profiles, last_query,
          active_file, processing, has_mistral, has_groq, pc, user_message, search,
          relevant_profiles, context, primary, tally>>

session == <<uploaded_files, messages, history, last_profiles, last_query,
             active_file, processing>>

NoSearch ==
    [raised |-> FALSE, intent |-> [raised |-> FALSE, years |-> <<>>,
                                   specific_date |-> NoDate, months |-> <<>>,
                                   generic |-> FALSE],
     strict_scores |-> <<>>, strict |-> <<>>, relaxed |-> FALSE,
     relaxed_scores |-> <<>>, result |-> <<>>]

\* context: the file the search was scoped to ("": none), whether
\* create_context_summary was called, and what it returned
NoContext ==
    [file |-> "", called |-> FALSE,
     summary |-> [raised |-> FALSE, sentinel |-> "", parts |-> <<>>]]

NoTally == [search |-> 0, summary |-> 0, primary |-> 0, secondary |-> 0, reply |-> 0]

\* the profiles at the positions idx of data
ProfilesAt(data, idx) == Tuple([k \in 1..Len(idx) |-> data[idx[k]]])

(***************************************************************************)
(* CoreSpec: the core called on its own.  A query and a base set are       *)
(* drawn; search_relevant_data is called on them, and then                 *)
(* create_context_summary on what it returned.                             *)
(***************************************************************************)
CoreInit ==
    /\ argo_data \in Collections
    /\ user_message \in Queries
    /\ uploaded_files = <<>>
    /\ messages = <<>>
    /\ history = <<>>
    /\ last_profiles = <<>>
    /\ last_query = ""
    /\ active_file = ""
    /\ processing = FALSE
    /\ has_mistral = FALSE
    /\ has_groq = FALSE
    /\ pc = "call_search"
    /\ search = NoSearch
    /\ relevant_profiles = <<>>
    /\ context = NoContext
    /\ primary = "none"
    /\ tally = [query |-> NoTally, run |-> NoTally]

CallSearch ==
    /\ pc = "call_search"
    /\ \E query \in {Chars(user_message)} :
           search' = search_relevant_data(query, argo_data)
    /\ relevant_profiles' = ProfilesAt(argo_data, search'.result)
    /\ pc' = IF search'.raised THEN "raised" ELSE "call_summary"
    /\ UNCHANGED <<argo_data, session, has_mistral, has_groq, user_message,
                   context, primary, tally>>

CallSummary ==
    /\ pc = "call_summary"
    /\ \E query \in {Chars(user_message)} :
           context' = [file |-> "", called |-> TRUE,
                       summary |-> create_context_summary(relevant_profiles, query)]
    /\ pc' = IF context'.summary.raised THEN "raised" ELSE "returned"
    /\ UNCHANGED <<argo_data, session, has_mistral, has_groq, user_message,
                   search, relevant_profiles, primary, tally>>

\* a summarizer whose context_parts outlives the call: the second call goes on
\* from the parts of the first
CallSummaryKeepsParts ==
    /\ pc = "returned"
    /\ \E query \in {Chars(user_message)} :
       \E again \in {create_context_summary(relevant_profiles, query)} :
           context' = [file |-> "", called |-> TRUE,
                       summary |-> [again EXCEPT !.parts = context.summary.parts \o @]]
    /\ pc' = "returned_again"
    /\ UNCHANGED <<argo_data, session, has_mistral, has_groq, user_message,
                   search, relevant_profiles, primary, tally>>

\* lines 1092-1200 once more, with the list and the query of the call that
\* returned: the method reads its two arguments and writes locals only
CallSummaryAgain ==
    /\ pc = "returned"
    /\ \E query \in {Chars(user_message)} :
           context' = [file |-> "", called |-> TRUE,
                       summary |-> create_context_summary(relevant_profiles, query)]
    /\ pc' = "returned_again"
    /\ UNCHANGED <<argo_data, session, has_mistral, has_groq, user_message,
                   search, relevant_profiles, primary, tally>>

CoreNext == CallSearch \/ CallSummary \/ CallSummaryAgain

CoreSpec == CoreInit /\ [][CoreNext]_vars
----------------------------------------------------------------------------
(***************************************************************************)
(* Spec: the session of main().  Streamlit runs the script from the top on *)
(* every widget event and on st.rerun(); pc = "idle" is a finished run     *)
(* that waits for an event.  A run that ends in an unhandled exception     *)
(* leaves the session as it stood when the exception was raised.           *)
(***************************************************************************)

\* the base sets a session may have loaded
SessionData ==
    { <<Pool[1], Pool[3]>>, <<Pool[3], Pool[4]>>, <<Pool[7], Pool[10]>> }

\* what the user may type
SessionQueries ==
    {"hello", "August 15 2023", "salinity 2021", "data for 2021",
     "compare 2020 vs 2022 temperature", "show me the uploaded file"}

\* the files the user may upload, and what convert_nc_to_json may make of one
UploadNames == {"floats.nc", "more.nc"}

Converted ==
    { Profile(None, 2021, 8, 20, "2021-08-20T00:00:00Z", <<"Bay_of_Bengal">>,
              Absent, Present(Stats(3300, 3500, 3400)), Absent) }

\* datetime.now().isoformat(), as a reading of the clock
Clock == {1}

\* what an LLM provider may answer
LLMTexts == {"The mean temperature was 25.5 C."}

\* what the stream of the primary provider may add up to: an answer, or
\* nothing when no line carries content
StreamTexts == LLMTexts \cup {""}

\* str(e) of what groq_client may raise
GroqErrors == {"Invalid API Key", "Connection error."}

\* how the POST of query_mistral_streaming may end: a status code, a
\* timeout, any other exception
PrimaryOutcomes == {"200", "401", "429", "500", "timeout", "error"}

NoDataReply == "No relevant data found. Try specific regions, years, or parameters."

\* messages never grows beyond this: the user stops acting on the page
MaxMessages == 3

\* the tallies stop counting here
MaxCount == 2

Bump(n) == IF n < MaxCount THEN n + 1 ELSE n

Init ==
    /\ argo_data \in SessionData
    /\ uploaded_files = <<>>
    /\ messages = <<>>
    /\ history = <<>>
    /\ last_profiles = <<>>
    /\ last_query = ""
    /\ active_file = ""
    /\ processing = FALSE
    /\ has_mistral \in BOOLEAN
    /\ has_groq \in BOOLEAN
    /\ pc = "idle"
    /\ user_message = ""
    /\ search = NoSearch
    /\ relevant_profiles = <<>>
    /\ context = NoContext
    /\ primary = "none"
    /\ tally = [query |-> NoTally, run |-> NoTally]

locals == <<user_message, search, relevant_profiles, context, primary>>

config == <<argo_data, has_mistral, has_groq>>

\* a run of the script is over: its local variables are gone
RunEnds ==
    /\ user_message' = ""
    /\ search' = NoSearch
    /\ relevant_profiles' = <<>>
    /\ context' = NoContext
    /\ primary' = "none"

\* where a new run of the script ends up: in the block of line 1381, or done
NextRun(flag) == IF flag THEN "process" ELSE "idle"

\* a chat input that does not look at the flag
SubmitWhileBusy(user_query) ==
    /\ pc = "idle"
    /\ Len(messages) + 2 <= MaxMessages
    /\ messages' = Append(messages, [role |-> "user", content |-> user_query])
    /\ history' = Append(history, user_query)
    /\ last_query' = user_query
    /\ processing' = TRUE
    /\ pc' = "process"
    /\ tally' = [query |-> NoTally, run |-> NoTally]
    /\ UNCHANGED <<config, locals, uploaded_files, last_profiles, active_file>>

\* lines 1371-1378: the chat input, accepted
Submit(user_query) ==
    /\ pc = "idle"
    /\ ~processing
    /\ Len(messages) + 2 <= MaxMessages
    /\ messages' = Append(messages, [role |-> "user", content |-> user_query])
    /\ history' = Append(history, user_query)
    /\ last_query' = user_query
    /\ processing' = TRUE
    /\ pc' = "process"
    /\ tally' = [query |-> NoTally, run |-> NoTally]
    /\ UNCHANGED <<config, locals, uploaded_files, last_profiles, active_file>>

\* line 1373 with processing set: the query is dropped, the run goes on to
\* line 1381
SubmitWhileProcessing(user_query) ==
    /\ pc = "idle"
    /\ processing
    /\ Len(messages) < MaxMessages
    /\ pc' = "process"
    /\ UNCHANGED <<config, locals, session, tally>>

\* lines 1310-1313: the Clear button
Clear ==
    /\ pc = "idle"
    /\ processing => Len(messages) < MaxMessages
    /\ history' = <<>>
    /\ messages' = <<>>
    /\ pc' = NextRun(processing)
    /\ UNCHANGED <<config, locals, uploaded_files, last_profiles, last_query,
                   active_file, processing, tally>>

\* an upload that keeps only the file uploaded last
UploadReplaces(name, converted_data, now) ==
    /\ pc = "idle"
    /\ processing => Len(messages) < MaxMessages
    /\ \A k \in 1..Len(uploaded_files) : uploaded_files[k].uploaded_filename # name
    /\ uploaded_files' =
           << [converted_data EXCEPT !.uploaded_filename = name,
                                    !.upload_timestamp = now,
                                    !.is_uploaded = TRUE] >>
    /\ active_file' = name
    /\ pc' = NextRun(processing)
    /\ UNCHANGED <<config, locals, messages, history, last_profiles, last_query,
                   processing, tally>>

\* lines 1282-1297: a file is uploaded and converted
Upload(name, converted_data, now) ==
    /\ pc = "idle"
    /\ processing => Len(messages) < MaxMessages
    /\ \A k \in 1..Len(uploaded_files) : uploaded_files[k].uploaded_filename # name
    /\ uploaded_files' =
           Append(uploaded_files,
                  [converted_data EXCEPT !.uploaded_filename = name,
                                         !.upload_timestamp = now,
                                         !.is_uploaded = TRUE])
    /\ active_file' = name
    /\ pc' = NextRun(processing)
    /\ UNCHANGED <<config, locals, messages, history, last_profiles, last_query,
                   processing, tally>>

\* lines 1359-1366: the button that drops the active file
RemoveFile ==
    /\ pc = "idle"
    /\ processing => Len(messages) < MaxMessages
    /\ active_file # ""
    /\ active_file' = ""
    /\ pc' = NextRun(processing)
    /\ UNCHANGED <<config, locals, uploaded_files, messages, history,
                   last_profiles, last_query, processing, tally>>

\* any other widget event (a history or an export button, an upload that
\* fails): the script runs again and changes no field kept here
Rerun ==
    /\ pc = "idle"
    /\ processing
    /\ Len(messages) < MaxMessages
    /\ pc' = "process"
    /\ UNCHANGED <<config, locals, session, tally>>

\* lines 1386-1387
ActiveFileData ==
    Filter(uploaded_files,
           Tuple([k \in 1..Len(uploaded_files) |->
                     uploaded_files[k].uploaded_filename = active_file]), 1)

\* a run that searches everything, active file or not
SearchInputUnscoped == argo_data \o uploaded_files

\* the list the run searches: lines 1385-1401 and 1343
SearchInput ==
    IF active_file # "" /\ ActiveFileData # <<>> THEN ActiveFileData
    ELSE argo_data \o uploaded_files

\* lines 1381-1402: the run reads the last message, searches and summarises.
\* An empty messages (IndexError), a search or a summary that raises end the
\* run there.
ProcessSearch ==
    /\ pc = "process"
    /\ IF messages = <<>>
       THEN /\ pc' = "idle"
            /\ RunEnds
            /\ UNCHANGED tally
       ELSE \E last_user_message \in {messages[Len(messages)].content},
               scoped \in {active_file # "" /\ ActiveFileData # <<>>},
               data \in {SearchInput} :
            \E query \in {Chars(last_user_message)} :
            \E s \in {search_relevant_data(query, data)} :
            \E found \in {ProfilesAt(data, s.result)} :
            \E called \in {~s.raised /\ (scoped => found # <<>>)},
               c \in {create_context_summary(found, query)} :
            \E raised \in {s.raised \/ (called /\ c.raised)} :
                /\ tally' = [query |-> [tally.query EXCEPT
                                           !.search = Bump(@),
                                           !.summary = IF called THEN Bump(@) ELSE @],
                             run |-> [NoTally EXCEPT
                                           !.search = 1,
                                           !.summary = IF called THEN 1 ELSE 0]]
                /\ IF raised
                   THEN /\ pc' = "idle"
                        /\ RunEnds
                   ELSE /\ pc' = "searched"
                        /\ user_message' = last_user_message
                        /\ search' = s
                        /\ relevant_profiles' = found
                        /\ context' =
                               IF called
                               THEN [file |-> IF scoped THEN active_file ELSE "",
                                     called |-> TRUE, summary |-> c]
                               ELSE [NoContext EXCEPT !.file = active_file]
                        /\ primary' = "none"
    /\ UNCHANGED <<config, session>>

\* a no-match branch that stores the empty list
ProcessNoMatchForgets ==
    /\ pc = "searched"
    /\ relevant_profiles = <<>>
    /\ messages' = Append(messages, [role |-> "assistant", content |-> NoDataReply])
    /\ last_profiles' = relevant_profiles
    /\ processing' = FALSE
    /\ pc' = "idle"
    /\ tally' = [query |-> [tally.query EXCEPT !.reply = Bump(@)],
                 run |-> [tally.run EXCEPT !.reply = Bump(@)]]
    /\ RunEnds
    /\ UNCHANGED <<config, uploaded_files, history, last_query, active_file>>

\* line 1404 with an empty list, then lines 1470-1475
ProcessNoMatch ==
    /\ pc = "searched"
    /\ relevant_profiles = <<>>
    /\ messages' = Append(messages, [role |-> "assistant", content |-> NoDataReply])
    /\ processing' = FALSE
    /\ pc' = "idle"
    /\ tally' = [query |-> [tally.query EXCEPT !.reply = Bump(@)],
                 run |-> [tally.run EXCEPT !.reply = Bump(@)]]
    /\ RunEnds
    /\ UNCHANGED <<config, uploaded_files, history, last_profiles,
                   last_query, active_file>>

\* a dispatch that goes on to the secondary provider whatever the primary
\* answered
ProcessPrimaryThenSecondary ==
    /\ pc = "searched"
    /\ relevant_profiles # <<>>
    /\ last_profiles' = relevant_profiles
    /\ \E outcome \in PrimaryOutcomes :
          primary' = IF has_mistral THEN outcome ELSE "not_configured"
    /\ pc' = "secondary"
    /\ tally' = [query |-> [tally.query EXCEPT !.primary = Bump(@)],
                 run |-> [tally.run EXCEPT !.primary = Bump(@)]]
    /\ UNCHANGED <<config, user_message, search, relevant_profiles, context,
                   uploaded_files, messages, history, last_query, active_file,
                   processing>>

\* lines 1404-1408 and 742-787: the list is kept and the primary provider
\* is asked
ProcessPrimary ==
    /\ pc = "searched"
    /\ relevant_profiles # <<>>
    /\ last_profiles' = relevant_profiles
    /\ \E outcome \in PrimaryOutcomes :
          primary' = IF has_mistral THEN outcome ELSE "not_configured"
    /\ pc' = IF primary' = "200" THEN "streaming" ELSE "secondary"
    /\ tally' = [query |-> [tally.query EXCEPT !.primary = Bump(@)],
                 run |-> [tally.run EXCEPT !.primary = Bump(@)]]
    /\ UNCHANGED <<config, user_message, search, relevant_profiles, context,
                   uploaded_files, messages, history, last_query, active_file,
                   processing>>

\* lines 1410-1444: the stream is read to its end and the answer appended
ProcessStream ==
    /\ pc = "streaming"
    /\ \E full_response \in StreamTexts :
          messages' = Append(messages, [role |-> "assistant", content |-> full_response])
    /\ pc' = "view_source"
    /\ tally' = [query |-> [tally.query EXCEPT !.reply = Bump(@)],
                 run |-> [tally.run EXCEPT !.reply = Bump(@)]]
    /\ UNCHANGED <<config, locals, uploaded_files, history, last_profiles,
                   last_query, active_file, processing>>

\* line 1415: iter_lines() raises when the connection breaks; nothing
\* catches it
ProcessStreamBreaks ==
    /\ pc = "streaming"
    /\ pc' = "idle"
    /\ RunEnds
    /\ UNCHANGED <<config, session, tally>>

\* lines 835-861: the diagnostic query_groq returns for an exception
GroqDiagnostic(error_msg) ==
    IF \/ Contains(Lower(Chars(error_msg)), Chars("authentication"))
       \/ Contains(Lower(Chars(error_msg)), Chars("api key"))
    THEN "DIAG_GROQ_AUTH"
    ELSE "DIAG_GROQ_ERROR"

\* lines 789-861: what query_groq may return
GroqReplies ==
    IF ~has_groq THEN {"DIAG_NO_PROVIDER"}
    ELSE LLMTexts \cup {GroqDiagnostic(e) : e \in GroqErrors}

\* lines 1445-1448: the secondary provider is asked and its answer appended
ProcessSecondary ==
    /\ pc = "secondary"
    /\ \E response \in GroqReplies :
          messages' = Append(messages, [role |-> "assistant", content |-> response])
    /\ pc' = "view_source"
    /\ tally' = [query |-> [tally.query EXCEPT !.secondary = Bump(@), !.reply = Bump(@)],
                 run |-> [tally.run EXCEPT !.secondary = Bump(@), !.reply = Bump(@)]]
    /\ UNCHANGED <<config, locals, uploaded_files, history, last_profiles,
                   last_query, active_file, processing>>

\* lines 1464-1469: meas['TEMP']['statistics'] of a variable marked present
\* that has no statistics: KeyError
ViewSourceRaises(profiles) ==
    \E k \in 1..Len(profiles) :
        \/ profiles[k].TEMP.present /\ ~profiles[k].TEMP.stats.has_stats
        \/ profiles[k].PSAL.present /\ ~profiles[k].PSAL.stats.has_stats

\* lines 1450-1475: the source data is shown and the flag cleared
ProcessFinish ==
    /\ pc = "view_source"
    /\ pc' = "idle"
    /\ processing' = IF ViewSourceRaises(relevant_profiles) THEN processing ELSE FALSE
    /\ RunEnds
    /\ UNCHANGED <<config, uploaded_files, messages, history,
                   last_profiles, last_query, active_file, tally>>

Process ==
    \/ ProcessSearch
    \/ ProcessNoMatch
    \/ ProcessPrimary
    \/ ProcessStream
    \/ ProcessStreamBreaks
    \/ ProcessSecondary
    \/ ProcessFinish

Next ==
    \/ \E q \in SessionQueries : Submit(q)
    \/ \E q \in SessionQueries : SubmitWhileProcessing(q)
    \/ Clear
    \/ \E name \in UploadNames, converted_data \in Converted, now \in Clock :
          Upload(name, converted_data, now)
    \/ RemoveFile
    \/ Rerun
    \/ Process

Spec == Init /\ [][Next]_vars

\* the step from pc = "process": ProcessSearch is the only one, and it is
\* enabled whenever pc = "process"
LeavesProcess == pc = "process" /\ pc' \in {"idle", "searched"}

\* the steps of a run after its search
ProcessOn ==
    \/ ProcessNoMatch
    \/ ProcessPrimary
    \/ ProcessStream
    \/ ProcessStreamBreaks
    \/ ProcessSecondary
    \/ ProcessFinish

\* a run of the script goes on by itself from line to line; the user need
\* not act
FairSpec == Spec /\ WF_pc(LeavesProcess) /\ WF_vars(ProcessOn)
----------------------------------------------------------------------------
(***************************************************************************)
(* The core, checked under CoreSpec.                                       *)
(***************************************************************************)

\* the search of this state has returned
Searched == pc # "call_search" /\ ~search.raised

\* the scores of the pass whose list the search returned
PassScores == IF search.relaxed THEN search.relaxed_scores ELSE search.strict_scores

\* the positions a pass scored above 0
Positive(scores) == {i \in 1..Len(scores) : ~scores[i].raised /\ scores[i].score > 0}

\* position i comes before position j in the ranking by scores
Before(scores, i, j) ==
    \/ scores[i].score > scores[j].score
    \/ scores[i].score = scores[j].score /\ i < j

\* C1: the list a search returns, from the strict pass or from the relaxed
\* one, holds no more than 15 profiles; each of them scored above 0; they
\* stand by descending score, equal scores in the order of the input; and
\* every profile that scored above 0 and was left out ranks behind all of
\* them, so the list is the first 15 of the ranking.
C1_RankedTop15 ==
    Searched =>
        LET r == search.result
            held == {r[k] : k \in 1..Len(r)}
            pos == Positive(PassScores)
        IN  /\ Len(r) <= 15
            /\ Len(r) = (IF Cardinality(pos) < 15 THEN Cardinality(pos) ELSE 15)
            /\ held \subseteq pos
            /\ \A j, k \in 1..Len(r) : j < k => Before(PassScores, r[j], r[k])
            /\ \A i \in pos \ held : \A k \in 1..Len(r) : Before(PassScores, r[k], i)

\* a strict pass that cut its ranking to 15 with equal scores among them
C1_Witness_StrictCut ==
    /\ Searched
    /\ ~search.relaxed
    /\ Cardinality(Positive(search.strict_scores)) > 15
    /\ Len(search.result) = 15
    /\ \E j, k \in 1..15 :
          /\ j < k
          /\ search.strict_scores[search.result[j]].score
                 = search.strict_scores[search.result[k]].score
    /\ \E j, k \in 1..15 :
          search.strict_scores[search.result[j]].score
                 > search.strict_scores[search.result[k]].score

\* C2: every strict score is at least 0, and a profile with TEMP present
\* has a strict score of at least 1 and is a candidate of the strict pass.
C2_TempFloor ==
    Searched =>
        \A i \in 1..Len(argo_data) :
            /\ ~search.strict_scores[i].raised => search.strict_scores[i].score >= 0
            /\ argo_data[i].TEMP.present =>
                  /\ ~search.strict_scores[i].raised
                  /\ search.strict_scores[i].score >= 1
                  /\ i \in Positive(search.strict_scores)

TheDate == [year |-> 2023, month |-> 8, day |-> 15]

\* C3: "15 August 2023", "2023-08-15" and "August 15 2023" all extract the
\* date of 15 August 2023.
C3_SameTriple ==
    (pc # "call_search"
        /\ user_message \in {"15 August 2023", "2023-08-15", "August 15 2023"})
    => /\ ~search.raised
       /\ search.intent.specific_date = TheDate

\* the query carried a temporal signal
TemporalSignal(intent) ==
    intent.years # <<>> \/ intent.months # <<>> \/ intent.specific_date # NoDate

\* C4: the relaxed search runs exactly when the strict pass scored no
\* profile above 0 and the query carried a temporal signal; then its list is
\* what the search returns, empty when it too scored nothing above 0; with
\* an empty strict pass and no signal the search returns the empty list.
C4_RelaxedIff ==
    Searched =>
        LET strict_empty == Positive(search.strict_scores) = {}
        IN  /\ search.relaxed <=> (strict_empty /\ TemporalSignal(search.intent))
            /\ (strict_empty /\ ~TemporalSignal(search.intent)) => search.result = <<>>
            /\ (search.relaxed /\ Positive(search.relaxed_scores) = {})
                   => search.result = <<>>
            /\ search.relaxed =>
                   \A k \in 1..Len(search.result) :
                       search.result[k] \in Positive(search.relaxed_scores)
            /\ ~search.relaxed => search.relaxed_scores = <<>>

\* a relaxed search that found something, and one that found nothing
C4_Witness_Relaxed ==
    /\ Searched
    /\ search.relaxed
    /\ Positive(search.strict_scores) = {}
    /\ search.result # <<>>
    /\ Len(argo_data) >= 2
    /\ \E i \in 1..Len(argo_data) : i \notin Positive(search.relaxed_scores)

\* the queries that mention 2021
Mentions2021 == search.intent.years = << <<"2", "0", "2", "1">> >>

NoRecordOf2021 == \A i \in 1..Len(argo_data) : argo_data[i].year # 2021

Adjacent(i) == argo_data[i].year \in {2020, 2022}

\* the strict score the profile at i would have, were its year 2021
ExactScore(i) ==
    StrictScore([argo_data[i] EXCEPT !.year = 2021],
                Lower(Chars(user_message)), search.intent)

C6_NeverRaises == pc # "raised"
----------------------------------------------------------------------------
(***************************************************************************)
(* The session, checked under Spec and FairSpec.                           *)
(***************************************************************************)

\* C7: once processing is set for a query, the session reaches a state in
\* which one reply to it has been appended and processing is false again.
C7_EventuallyCompletes ==
    processing ~> (~processing /\ tally.query.reply = 1)

\* a step that takes a query in: it appends a user message, or extends
\* history, or sets last_query
Accepts ==
    \/ Len(messages') = Len(messages) + 1 /\ messages'[Len(messages')].role = "user"
    \/ Len(history') > Len(history)
    \/ last_query' # last_query

\* the single-flight guard: a query is taken in only with the flag down, and
\* that raises the flag; a chat input with the flag up changes none of
\* messages, history and last_query
Guarded ==
    /\ Accepts => ~processing /\ processing'
    /\ (\E q \in SessionQueries : SubmitWhileProcessing(q))
           => UNCHANGED <<messages, history, last_query>>

PrimaryFailed == primary \in {"not_configured", "401", "429", "500", "timeout", "error"}

Diagnostics == {"DIAG_NO_PROVIDER", "DIAG_GROQ_AUTH", "DIAG_GROQ_ERROR"}

\* C9: in a run that found a profile the primary provider is asked first and
\* once; the secondary provider is asked exactly when the primary is not
\* configured or failed, never after a status of 200, and once; and when the
\* secondary is not configured either the reply is the diagnostic.
C9_FallbackProtocol ==
    /\ tally.run.primary <= 1
    /\ tally.run.secondary <= tally.run.primary
    /\ (pc \in {"streaming", "secondary", "view_source"} /\ ~has_mistral)
           => primary = "not_configured"
    /\ pc = "searched" => tally.run.primary = 0 /\ primary = "none"
    /\ pc = "streaming" =>
          /\ primary = "200" /\ relevant_profiles # <<>>
          /\ tally.run.primary = 1 /\ tally.run.secondary = 0
    /\ pc = "secondary" =>
          /\ PrimaryFailed /\ relevant_profiles # <<>>
          /\ tally.run.primary = 1 /\ tally.run.secondary = 0
    /\ pc = "view_source" =>
          /\ tally.run.primary = 1
          /\ tally.run.secondary = 1 <=> PrimaryFailed
          /\ tally.run.secondary = 0 <=> primary = "200"
          /\ tally.run.reply = 1
          /\ messages[Len(messages)].role = "assistant"
          /\ (PrimaryFailed /\ ~has_groq)
                 => messages[Len(messages)].content = "DIAG_NO_PROVIDER"
          /\ (PrimaryFailed /\ has_groq)
                 => messages[Len(messages)].content
                        \in LLMTexts \cup (Diagnostics \ {"DIAG_NO_PROVIDER"})

\* both providers were tried and the reply is the diagnostic
C9_Witness_Exhausted ==
    /\ pc = "view_source"
    /\ has_mistral
    /\ primary = "timeout"
    /\ tally.run.secondary = 1
    /\ messages[Len(messages)].content \in Diagnostics

\* C10: a run whose search returned no profile appends the fixed reply, asks
\* no provider, leaves last_profiles as it was and clears processing.
C10_NoMatch ==
    [][(pc = "searched" /\ relevant_profiles = <<>>) =>
          /\ messages' = Append(messages, [role |-> "assistant", content |-> NoDataReply])
          /\ last_profiles' = last_profiles
          /\ ~processing'
          /\ pc' = "idle"
          /\ tally.run.primary = 0 /\ tally'.run.primary = 0
          /\ tally.run.secondary = 0 /\ tally'.run.secondary = 0]_vars

\* a query matched nothing after an earlier one had left its profiles
C10_Witness_NoMatch ==
    /\ pc = "idle"
    /\ ~processing
    /\ messages # <<>>
    /\ messages[Len(messages)].content = NoDataReply
    /\ tally.run.search = 1 /\ tally.run.primary = 0
    /\ last_profiles # <<>>
----------------------------------------------------------------------------
(***************************************************************************)
(* Skipped profiles, missing fields and the frame of the session.          *)
(***************************************************************************)

\* the positions of the profiles a pass of the search skipped: the body of
\* its try raised
Skipped ==
    {i \in 1..Len(argo_data) :
        \/ search.strict_scores[i].raised
        \/ search.relaxed /\ search.relaxed_scores[i].raised}

\* argo_data with the skipped profiles taken out
WithoutSkipped ==
    Filter(argo_data, Tuple([i \in 1..Len(argo_data) |-> i \notin Skipped]), 1)

\* C11: a profile whose scoring raises is skipped without an error: it is
\* not in the list the search returns, and the list is the one the search
\* returns for the same query over the collection without the skipped
\* profiles.
C11_SkippedSilently ==
    Searched =>
        LET again == search_relevant_data(Chars(user_message), WithoutSkipped)
        IN  /\ \A i \in Skipped : ~InSeq(i, search.result)
            /\ ~again.raised
            /\ \A i \in 1..Len(again.strict_scores) : ~again.strict_scores[i].raised
            /\ ProfilesAt(argo_data, search.result)
                   = ProfilesAt(WithoutSkipped, again.result)

\* a search that skipped a profile whose temporal entry is no dictionary and
\* returned a profile that stands behind it
C11_Witness_Skipped ==
    /\ Searched
    /\ \E i \in Skipped, k \in 1..Len(search.result) :
          ~argo_data[i].well_formed /\ i < search.result[k]

\* the profile lacks temporal.year or temporal.month
LacksYearOrMonth(profile) ==
    profile.well_formed /\ (profile.year = None \/ profile.month = None)

\* what the rules of the strict pass that read no temporal field give a
\* profile: the uploaded boost, the regions, the parameters, the fallback
StrictNonTemporal(profile, query_lower, intent) ==
    StrictFallback(profile,
        (IF intent.generic /\ profile.is_uploaded THEN 10 ELSE 0)
        + 5 * RegionHits(profile, query_lower)
        + StrictParamTier(profile, query_lower))

\* the same for the relaxed pass: the regions and the parameters
RelaxedNonTemporal(profile, query_lower) ==
    4 * RegionHits(profile, query_lower) + RelaxedParamTier(profile, query_lower)

\* C12: a profile without year or month is scored, in the strict and in the
\* relaxed pass, exactly what the rules that read no temporal field give it,
\* and is returned when that is above 0 (unless 15 profiles rank before it);
\* the summary leaves it out of its year-month groups.
C12_MissingTemporalStillScored ==
    /\ Searched =>
          LET query_lower == Lower(Chars(user_message))
          IN  \A i \in 1..Len(argo_data) :
                  LacksYearOrMonth(argo_data[i]) =>
                      /\ ~search.strict_scores[i].raised
                      /\ search.strict_scores[i].score
                             = StrictNonTemporal(argo_data[i], query_lower, search.intent)
                      /\ search.relaxed =>
                            /\ ~search.relaxed_scores[i].raised
                            /\ search.relaxed_scores[i].score
                                   = RelaxedNonTemporal(argo_data[i], query_lower)
                      /\ (i \in Positive(PassScores) /\ Len(search.result) < MaxResults)
                             => InSeq(i, search.result)
    /\ (pc = "returned" /\ relevant_profiles # <<>>) =>
          LET grouped == {k \in 1..Len(relevant_profiles) :
                             ~LacksYearOrMonth(relevant_profiles[k])}
              ranged == \E k \in 1..Len(context.summary.parts) :
                            context.summary.parts[k].kind = "TEMPORAL RANGE"
          IN  ranged <=> Cardinality({TimeKey(relevant_profiles[k]) : k \in grouped}) > 1

(***************************************************************************)
(* The session, checked under Spec.                                        *)
(***************************************************************************)

\* the records of a list
Records(list) == {list[k] : k \in 1..Len(list)}

\* the step appends one record to uploaded_files: a record tagged as an
\* upload, under a file name no earlier record has
AppendsUpload ==
    /\ Len(uploaded_files') = Len(uploaded_files) + 1
    /\ SubSeq(uploaded_files', 1, Len(uploaded_files)) = uploaded_files
    /\ LET record == uploaded_files'[Len(uploaded_files')]
       IN  /\ record.is_uploaded
           /\ record.uploaded_filename \in UploadNames
           /\ record.upload_timestamp \in Clock
           /\ \A k \in 1..Len(uploaded_files) :
                 uploaded_files[k].uploaded_filename # record.uploaded_filename
           /\ \E converted_data \in Converted :
                 record = [converted_data EXCEPT
                              !.is_uploaded = TRUE,
                              !.uploaded_filename = record.uploaded_filename,
                              !.upload_timestamp = record.upload_timestamp]

\* C13: no step changes argo_data; a step leaves uploaded_files as it is or
\* appends one tagged record to it, and only a run that is not in the
\* processing block and does not clear the chat appends; the profiles a
\* search handed over are records of argo_data or uploaded_files as they
\* stand.
C13_AppendOnly ==
    [][/\ argo_data' = argo_data
       /\ uploaded_files' = uploaded_files \/ AppendsUpload
       /\ (pc # "idle" \/ (messages # <<>> /\ messages' = <<>>))
              => uploaded_files' = uploaded_files
       /\ Records(relevant_profiles') \cup Records(last_profiles')
              \subseteq Records(argo_data') \cup Records(uploaded_files')]_vars

\* a second file was uploaded, and a search then handed over an uploaded
\* record
C13_Witness_SecondUpload ==
    /\ Len(uploaded_files) = 2
    /\ pc = "searched"
    /\ \E k \in 1..Len(relevant_profiles) : relevant_profiles[k].is_uploaded

(***************************************************************************)
(* The summarizer and the scoring tiers, checked under CoreSpec.           *)
(***************************************************************************)

\* C14: for an empty list create_context_summary returns the no-data
\* sentinel, whatever the query: no TEMPORAL RANGE part, no REAL DATA part,
\* no exception.
C14_EmptySentinel ==
    (context.called /\ relevant_profiles = <<>>) =>
        /\ ~context.summary.raised
        /\ context.summary.sentinel = NoDataSentinel
        /\ context.summary.parts = <<>>

\* the summary of the empty list was asked for by a comparison of two years
C14_Witness_EmptyComparison ==
    /\ context.called
    /\ relevant_profiles = <<>>
    /\ Len(search.intent.years) = 2
    /\ argo_data # <<>>

NoParameterKeyword(query_lower) ==
    ~AnyKeyword(query_lower, <<"temperature", "temp", "salinity", "salt", "psal",
                               "oxygen", "doxy", "chlorophyll", "chla",
                               "pressure", "depth", "pres">>)

\* the run has searched, for a query without year, month, date, parameter
\* keyword or region of a searched profile, a list whose profiles all lack
\* TEMP
PlainQueryNoTemp ==
    /\ pc = "searched"
    /\ ~TemporalSignal(search.intent)
    /\ NoParameterKeyword(Lower(Chars(user_message)))
    /\ \A k \in 1..Len(SearchInput) :
           /\ ~SearchInput[k].TEMP.present
           /\ RegionHits(SearchInput[k], Lower(Chars(user_message))) = 0

\* every profile scored 0, the search returned the empty list without a
\* relaxed pass, and the step of the run appends the fixed reply
NothingFound ==
    /\ \A k \in 1..Len(search.strict_scores) :
           ~search.strict_scores[k].raised /\ search.strict_scores[k].score = 0
    /\ ~search.relaxed
    /\ relevant_profiles = <<>>
    /\ pc' # "searched" =>
           messages' = Append(messages, [role |-> "assistant", content |-> NoDataReply])

\* C16 as stated: for a query with no date, no region name and no parameter
\* keyword over profiles that all lack TEMP, every profile scores 0, the
\* search returns the empty list, no relaxed pass finds anything, and the
\* reply of the run is the "No relevant data found" notice
C16_NothingToFind == [][PlainQueryNoTemp => NothingFound]_vars

\* C16, amended: the same, for a query that also holds no generic keyword
\* or a list that holds no uploaded profile
C16_NothingToFindUnlessUploaded ==
    [][(/\ PlainQueryNoTemp
        /\ ~(search.intent.generic /\ \E k \in 1..Len(SearchInput) :
                                          SearchInput[k].is_uploaded))
       => NothingFound]_vars

\* the notice was the reply to a plain query over an uploaded file and a
\* base set that all lack TEMP
C16_Witness_Notice ==
    /\ pc = "idle"
    /\ uploaded_files # <<>>
    /\ argo_data = <<Pool[3], Pool[4]>>
    /\ Len(messages) = 2
    /\ messages[1] = [role |-> "user", content |-> "hello"]
    /\ messages[2] = [role |-> "assistant", content |-> NoDataReply]

\* C17: when the query holds a specific date the months of the query are
\* empty, and no month rule adds to a score: the strict pass and the relaxed
\* pass score every profile as they would with no month in the query
C17_DateIgnoresMonths ==
    (Searched /\ search.intent.specific_date # NoDate) =>
        LET query_lower == Lower(Chars(user_message))
            intent == search.intent
        IN  /\ intent.months = <<>>
            /\ \A i \in 1..Len(argo_data) :
                  /\ search.strict_scores[i] =
                        StrictScore(argo_data[i], query_lower,
                                    [intent EXCEPT !.months = <<>>])
                  /\ search.relaxed =>
                        search.relaxed_scores[i] =
                            RelaxedScore(argo_data[i], query_lower, intent.years,
                                         <<>>, intent.specific_date)

\* what position i of the collection got from the strict pass apart from
\* its regions, its parameters and the flag of an uploaded file; the
\* fallback point of a profile that got nothing at all is left out
StrictTemporalPart(i) ==
    LET query_lower == Lower(Chars(user_message))
        profile == argo_data[i]
        rest == (IF search.intent.generic /\ profile.is_uploaded THEN 10 ELSE 0)
                + 5 * RegionHits(profile, query_lower)
                + StrictParamTier(profile, query_lower)
        score == search.strict_scores[i].score
    IN  IF score = 1 /\ rest = 0 /\ profile.TEMP.present THEN 0 ELSE score - rest

\* the day of the profile lies within n days of the day d
DayWithin(profile, d, n) ==
    profile.day # None /\ profile.day - d <= n /\ d - profile.day <= n

\* C18: with a specific date in the query the strict pass gives a profile
\* exactly one of 0, 8, 10, 15, 20 for the date: 0 unless its year and its
\* month are those of the date, else 20 for the same day, else 15 for a day
\* within 3, else 10 for a day within 7, else 8; and nothing for the years
\* and months of the query
C18_ExactDateTierExclusive ==
    (Searched /\ search.intent.specific_date # NoDate) =>
        \A i \in 1..Len(argo_data) :
            argo_data[i].well_formed =>
                LET profile == argo_data[i]
                    sd == search.intent.specific_date
                IN  /\ ~search.strict_scores[i].raised
                    /\ StrictTemporalPart(i) \in {0, 8, 10, 15, 20}
                    /\ StrictTemporalPart(i) =
                          IF profile.year # sd.year \/ profile.month # sd.month THEN 0
                          ELSE IF profile.day = sd.day THEN 20
                          ELSE IF DayWithin(profile, sd.day, 3) THEN 15
                          ELSE IF DayWithin(profile, sd.day, 7) THEN 10
                          ELSE 8

\* a search for a date scored a profile of that day and one of the same
\* month that has no day, with a year of the query at hand
C18_Witness_TwoDayRules ==
    /\ Searched
    /\ search.intent.specific_date # NoDate
    /\ search.intent.years # <<>>
    /\ \E i, j \in 1..Len(argo_data) :
           /\ StrictTemporalPart(i) = 20
           /\ StrictTemporalPart(j) = 8

\* the month of the profile lies within n months of a month of the query
MonthWithin(profile, months, n) ==
    /\ profile.month # None
    /\ \E k \in 1..Len(months) :
          profile.month - months[k] <= n /\ months[k] - profile.month <= n

\* what the claim's year/month tier gives a profile
YearMonthTierStated(profile, years, months) ==
    IF ~InSeq(Str(profile.year), years) THEN 0
    ELSE IF months = <<>> THEN 10 + 5
    ELSE IF InSeq(profile.month, months) THEN 10 + 8
    ELSE IF MonthWithin(profile, months, 1) THEN 10 + 5
    ELSE 10

\* C19: with no specific date and a year in the query, the strict pass gives
\* a profile 0 for a year that is not in the query, whatever its month, and
\* for a year that is: 18 with a month of the query, 15 with a month next to
\* one, 10 with months in the query and none near, 15 with no month in the
\* query; so always one of 0, 10, 15, 18
C19_StrictYearMonthTier ==
    (Searched /\ search.intent.specific_date = NoDate /\ search.intent.years # <<>>) =>
        \A i \in 1..Len(argo_data) :
            argo_data[i].well_formed =>
                /\ ~search.strict_scores[i].raised
                /\ StrictTemporalPart(i) \in {0, 10, 15, 18}
                /\ StrictTemporalPart(i) =
                      YearMonthTierStated(argo_data[i], search.intent.years,
                                          search.intent.months)

\* what position i of the collection got from the relaxed pass apart from
\* its regions and its parameters
RelaxedTemporalPart(i) ==
    LET query_lower == Lower(Chars(user_message))
    IN  search.relaxed_scores[i].score
        - 4 * RegionHits(argo_data[i], query_lower)
        - RelaxedParamTier(argo_data[i], query_lower)

\* the year of the profile lies within n years of a year of the query
YearWithin(profile, years, n) ==
    /\ profile.year # None
    /\ \E k \in 1..Len(years) :
          profile.year - ToInt(years[k]) <= n /\ ToInt(years[k]) - profile.year <= n

\* what the claim's relaxed weights give a profile for its year
RelaxedYearStated(profile, years) ==
    IF InSeq(Str(profile.year), years) THEN 8
    ELSE IF YearWithin(profile, years, 1) THEN 4
    ELSE 0

\* and for its month
RelaxedMonthStated(profile, months) ==
    IF profile.month # None /\ InSeq(profile.month, months) THEN 6
    ELSE IF MonthWithin(profile, months, 2) THEN 3
    ELSE 0

\* C20: with no specific date the relaxed pass gives a profile 8 for a year
\* of the query, 4 for a year next to one and never both; apart from that 6
\* for a month of the query and 3 for a month within 2 of one
C20_RelaxedWeights ==
    (Searched /\ search.relaxed /\ search.intent.specific_date = NoDate) =>
        \A i \in 1..Len(argo_data) :
            argo_data[i].well_formed =>
                /\ ~search.relaxed_scores[i].raised
                /\ RelaxedTemporalPart(i) =
                      RelaxedYearStated(argo_data[i], search.intent.years)
                      + RelaxedMonthStated(argo_data[i], search.intent.months)

\* a part of the summary is a profile segment
IsData(part) == part.kind = "REAL DATA"

\* the profile segments of the summary of this state
Segments == SelectSeq(context.summary.parts, IsData)

\* lines 1114-1117: the query of this state is a comparison with a year
ComparisonQuery ==
    /\ AnyKeyword(Lower(Chars(user_message)), <<"compare", "difference", "vs", "versus">>)
    /\ YearsInQuery(Chars(user_message)) # <<>>

\* the summary of this state was made and returned
Summarised == context.called /\ ~context.summary.raised /\ relevant_profiles # <<>>

\* C21: the summary of a comparison query with a year has segments only for
\* the profiles whose year is in the query: of each such year the first 3 of
\* the list, the years ascending, the profiles of a year in the order of the
\* list
C21_ComparisonByYear ==
    (Summarised /\ ComparisonQuery) =>
        LET profiles == relevant_profiles
            query_lower == Lower(Chars(user_message))
            is_summary == AnyKeyword(query_lower,
                              <<"summary", "overview", "tell me", "analyze", "analysis">>)
            temp_shown == AnyKeyword(query_lower, <<"temperature", "temp">>) \/ is_summary
            sal_shown == AnyKeyword(query_lower, <<"salinity", "salt">>) \/ is_summary
            Named(j) == InSeq(Str(profiles[j].year), YearsInQuery(Chars(user_message)))
            chosen == {j \in 1..Len(profiles) :
                          /\ Named(j)
                          /\ Cardinality({i \in 1..(j - 1) :
                                 profiles[i].year = profiles[j].year}) < 3}
            Rank(j) == 1 + Cardinality({i \in chosen :
                              \/ profiles[i].year < profiles[j].year
                              \/ profiles[i].year = profiles[j].year /\ i < j})
        IN  /\ Len(Segments) = Cardinality(chosen)
            /\ \A j \in chosen :
                   Segments[Rank(j)] =
                       DataPart(profiles[j], Str(profiles[j].year),
                                temp_shown, sal_shown, is_summary)

\* a comparison was summarised from a list with more than 3 profiles of one
\* named year, told apart by their temperatures, and profiles of another
\* year
C21_Witness_MoreThanThree ==
    /\ Summarised /\ ComparisonQuery
    /\ Len(Segments) = 3
    /\ Segments[1] # Segments[2] /\ Segments[2] # Segments[3]
    /\ Cardinality({j \in 1..Len(relevant_profiles) :
           relevant_profiles[j].year = 2022}) > 3
    /\ \E j \in 1..Len(relevant_profiles) : relevant_profiles[j].year = 2023

\* the summary of this state has k TEMPORAL RANGE parts
RangeCount ==
    Cardinality({k \in 1..Len(context.summary.parts) :
        context.summary.parts[k].kind = "TEMPORAL RANGE"})

\* segment k of the summary is that of profile k of the list, and prints
\* TEMP, SAL and DEPTH for the variables that are present and for no other
SegmentOfProfile(k) ==
    LET profile == relevant_profiles[k]
        part == Segments[k]
    IN  /\ part.date = DateOf(profile)
        /\ part.regions = RegionsOf(profile)
        /\ part.file = profile.uploaded_filename
        /\ (part.temp # <<>>) = profile.TEMP.present
        /\ (part.sal # <<>>) = profile.PSAL.present
        /\ (part.depth # <<>>) = profile.PRES.present

\* the summary has a segment for each of the first 10 profiles of the list,
\* in the order of the list, and none for a later one
FirstTenSegments ==
    /\ Len(Segments) = (IF Len(relevant_profiles) < 10 THEN Len(relevant_profiles) ELSE 10)
    /\ \A k \in 1..Len(Segments) : SegmentOfProfile(k)
    /\ RangeCount <= 1
    /\ Len(context.summary.parts) = Len(Segments) + RangeCount

\* C22: the summary of a query that is no comparison has one segment for
\* each of the first min(10, n) profiles of the list, in list order, none
\* for a later profile, at most one TEMPORAL RANGE part, and each segment
\* prints TEMP, SAL and DEPTH exactly for the variables marked present
C22_PlainSummary ==
    (context.called /\ relevant_profiles # <<>> /\ ~ComparisonQuery) =>
        /\ ~context.summary.raised
        /\ FirstTenSegments

\* the positions of the list a comparison prints: of each named year the
\* first 3
ComparisonChosen ==
    {j \in 1..Len(relevant_profiles) :
        /\ InSeq(Str(relevant_profiles[j].year), YearsInQuery(Chars(user_message)))
        /\ Cardinality({i \in 1..(j - 1) :
               relevant_profiles[i].year = relevant_profiles[j].year}) < PerYear}

\* the place of the segment of position j among the segments of a comparison
ComparisonRank(j) ==
    1 + Cardinality({i \in ComparisonChosen :
            \/ relevant_profiles[i].year < relevant_profiles[j].year
            \/ relevant_profiles[i].year = relevant_profiles[j].year /\ i < j})

\* the profile that segment k of the summary was made of
ProfileOfSegment(k) ==
    IF ComparisonQuery
    THEN relevant_profiles[CHOOSE j \in ComparisonChosen : ComparisonRank(j) = k]
    ELSE relevant_profiles[k]

\* every statistic of the variable has a value
HasAllStats(var) ==
    var.stats.min # None /\ var.stats.max # None /\ var.stats.mean # None

\* C23: a segment prints no value for a statistic its profile does not have,
\* whether or not the variable is marked present: a TEMP or SAL clause only
\* with min, max and mean at hand, a DEPTH clause only with max at hand
C23_AbsentStatsOmitted ==
    Summarised =>
        \A k \in 1..Len(Segments) :
            /\ Segments[k].temp # <<>> => HasAllStats(ProfileOfSegment(k).TEMP)
            /\ Segments[k].sal # <<>> => HasAllStats(ProfileOfSegment(k).PSAL)
            /\ Segments[k].depth # <<>> => ProfileOfSegment(k).PRES.stats.max # None

\* position i holds a well-formed profile: its 'temporal' is a dictionary
\* and the strict pass found every nested field it read, so it scored the
\* profile instead of skipping it
ScoredByStrict(i) == argo_data[i].well_formed /\ ~search.strict_scores[i].raised

\* C24: when the relaxed pass runs, no well-formed profile can earn its
\* exact temporal points: with a date in the query none has the year and
\* the month of the date, so the date rule gives at most 6 + 4; with years
\* and no date none has a year of the query, so the year rule gives at
\* most 4
C24_RelaxedExactUnreachable ==
    (Searched /\ search.relaxed) =>
        \A i \in 1..Len(argo_data) :
            ScoredByStrict(i) =>
                LET profile == argo_data[i]
                    sd == search.intent.specific_date
                    years == search.intent.years
                IN  IF sd # NoDate
                    THEN /\ ~(profile.year = sd.year /\ profile.month = sd.month)
                         /\ RelaxedDateTier(profile, sd) <= 6 + 4
                    ELSE years # <<>> =>
                         /\ ~InSeq(Str(profile.year), years)
                         /\ RelaxedYearTier(profile, years) <= 4

\* a relaxed pass for a date returned a profile of the year of the date and
\* of the month next to it, which the date rule gave 6 + 4
C24_Witness_RelaxedDate ==
    /\ Searched /\ search.relaxed
    /\ search.intent.specific_date # NoDate
    /\ \E k \in 1..Len(search.result) :
           /\ ScoredByStrict(search.result[k])
           /\ RelaxedDateTier(argo_data[search.result[k]],
                              search.intent.specific_date) = 6 + 4

\* the PSAL rule of the relaxed pass, lines 1076-1080
RelaxedPsalRule(profile, query_lower) ==
    IF AnyKeyword(query_lower, <<"temperature", "salinity", "analysis">>)
       /\ profile.PSAL.present
    THEN 2 ELSE 0

\* the temporal rules of the relaxed pass, lines 1042-1068
RelaxedTemporalRules(profile, intent) ==
    (IF intent.specific_date # NoDate
     THEN RelaxedDateTier(profile, intent.specific_date)
     ELSE IF intent.years # <<>> THEN RelaxedYearTier(profile, intent.years)
     ELSE 0)
    + RelaxedMonthTier(profile, intent.months)

\* C25: when the relaxed pass runs, every well-formed profile had strict
\* score 0, so none has TEMP present and none has a region named in the
\* query; the region rule and the TEMP rule of the relaxed pass give
\* nothing, and a relaxed score is made of the temporal rules and the PSAL
\* rule only
C25_RelaxedOnlyTemporalAndPsal ==
    (Searched /\ search.relaxed) =>
        \A i \in 1..Len(argo_data) :
            ScoredByStrict(i) =>
                LET profile == argo_data[i]
                    query_lower == Lower(Chars(user_message))
                IN  /\ search.strict_scores[i].score = 0
                    /\ ~profile.TEMP.present
                    /\ RegionHits(profile, query_lower) = 0
                    /\ ~search.relaxed_scores[i].raised =>
                          search.relaxed_scores[i].score =
                              RelaxedTemporalRules(profile, search.intent)
                              + RelaxedPsalRule(profile, query_lower)

\* a relaxed pass returned a profile that has a region and got points from
\* the temporal rules and from the PSAL rule
C25_Witness_TemporalAndPsal ==
    /\ Searched /\ search.relaxed
    /\ \E k \in 1..Len(search.result) :
           LET profile == argo_data[search.result[k]]
           IN  /\ profile.regions # <<>>
               /\ RelaxedPsalRule(profile, Lower(Chars(user_message))) = 2
               /\ RelaxedTemporalRules(profile, search.intent) > 0

\* C26: the summary of a non-empty list that a search returned has at least
\* one profile segment, also for a comparison whose profiles the relaxed
\* pass found in the years next to those of the query
C26_SummaryHasSegment == Summarised => Len(Segments) >= 1

\* C27: while processing is set, messages is not empty and its last entry
\* is the user message of the query taken in last, whatever the user did in
\* between
C27_LastMessageIsQuery ==
    processing =>
        /\ messages # <<>>
        /\ messages[Len(messages)] = [role |-> "user", content |-> last_query]

\* C28: when a request ends and leaves profiles for the export, they are the
\* list that the search of this request returned, and the request was that
\* of last_query; so last_profiles and last_query belong together in every
\* state without a request in flight
C28_ExportPairConsistent ==
    [][(pc # "idle" /\ pc' = "idle" /\ ~processing' /\ last_profiles' # <<>>) =>
           /\ user_message = last_query'
           /\ last_profiles' = relevant_profiles]_vars

\* lines 1385-1389: active_file names a record of uploaded_files
Scoped == active_file # "" /\ ActiveFileData # <<>>

\* every profile of the list is a record of the active file
OfActiveFile(list) ==
    \A k \in 1..Len(list) : list[k].uploaded_filename = active_file

\* the search step of a run: under the scope it searches the records of the
\* active file only and its list and context are of that file; without the
\* scope it searches the base set followed by all uploaded records
ScopedSearchStep ==
    (pc = "process" /\ pc' = "searched") =>
        LET query == Chars(messages[Len(messages)].content)
        IN  IF Scoped
            THEN /\ search' = search_relevant_data(query, ActiveFileData)
                 /\ relevant_profiles' = ProfilesAt(ActiveFileData, search'.result)
                 /\ OfActiveFile(relevant_profiles')
                 /\ context'.file = active_file
                 /\ relevant_profiles' = <<>> => ~context'.called
            ELSE /\ search' = search_relevant_data(query, argo_data \o uploaded_files)
                 /\ relevant_profiles' =
                        ProfilesAt(argo_data \o uploaded_files, search'.result)

\* a scoped request that found nothing ends with the fixed reply
ScopedEmptyStep ==
    (pc = "searched" /\ pc' # "searched" /\ Scoped /\ relevant_profiles = <<>>) =>
        messages' = Append(messages, [role |-> "assistant", content |-> NoDataReply])

====
